---- MODULE Spec2Model ----
(***************************************************************************)
(* State-machine model of reliq-particle-image: the sprite animation       *)
(* driver (AnimationSystem + FrameCache), the fade and scatter effects,    *)
(* the simulation tick loop of ReliqParticleImage and the interaction      *)
(* resolver.  Each part has its own specification over the shared          *)
(* variables; a specification leaves the other parts' variables unchanged. *)
(*                                                                         *)
(* Time.  The code reads performance.now() and compares differences with   *)
(* a duration.  The model keeps each such difference (now - lastFrameTime, *)
(* now - startTime) as a timer that grows with the clock and saturates at  *)
(* the duration it is compared with; storing "now" in the field resets the *)
(* timer to 0.                                                             *)
(***************************************************************************)
EXTENDS Integers, Sequences, FiniteSets, TLC

(***************************************************************************)
(* Bounds of the model.                                                    *)
(***************************************************************************)
MaxFrames == 2          \* longest configured frame sequence
MaxInits == 1           \* calls of AnimationSystem.initialize() explored
MaxStops == 2           \* 'animationStopped' signals counted
MaxChanged == 3         \* 'animationFrameChanged' signals counted per start
MaxChains == 1          \* animate() callbacks scheduled before another start()
FrameDuration == 2      \* config.animation.frame_duration_ms, in clock units
MaxDuration == 8        \* longest fade duration_ms, in clock units
MaxCompletions == 3     \* fade completions counted after one trigger
MaxScatters == 2        \* calls of scatterParticles() explored
MaxReseeds == 1         \* times the primary particles are re-created
MaxInitCalls == 3       \* calls of ReliqParticleImage.initialize() explored
MaxPasses == 4          \* update/render passes of the tick loop counted
RepulseUnits == 5       \* clock units in one repulse_duration
MaxApplies == 3         \* calls of applyRepulsion() explored
MaxSurface == 3         \* widest canvas, in sample positions
MaxTarget == 2          \* largest particleCount requested
MaxImgWidth == 3        \* widest pixel buffer
MaxImgHeight == 2       \* tallest pixel buffer
CanvasSize == 9         \* canvas.width = canvas.height
MaxSpeedCalls == 2      \* setAnimationSpeed() calls explored
MaxSignals == 3         \* events dispatched on document
MaxStages == 4          \* longest flow.stages explored
MaxPending == 2         \* animate() callbacks scheduled at once
MaxLate == 2            \* callbacks counted after destroy()
MaxAttachCalls == 4     \* attach, detach and updateConfig calls on one manager
MaxDisplayCalls == 3    \* calls of window.particleImageDisplay
MaxFadeTriggers == 2    \* executeFadeOut() calls explored
MaxInteractTicks == 3   \* updateSystems() passes followed with the pointer at work
MaxRunScatters == 1     \* executeScatter() calls followed by the tick loop
MaxResizes == 1         \* resizes handled during playback
MaxTicks == 2400        \* Particle.update() calls followed
StartDistance == 100    \* pixels between a particle's start and its destination
PosScale == 10000       \* position units per pixel

FrameIds == {0, 1}      \* frame identifiers a configuration may list
OtherId == 9            \* an identifier no configuration lists
NoFrame == -1           \* JS null / undefined for currentFrame
NaNIndex == -2          \* JS NaN for a frame index ((x) % 0)

MinSpacing == 10        \* const minSpacing = 10
AttemptBudget == 50     \* attempts < 50
SampleStep == 5         \* distance between neighbouring sample positions
AlphaThreshold == 128   \* pixelData.data[pixelIndex] > 128
DefaultFrameDuration == 150   \* this.config.animation?.frame_duration_ms || 150
ShortestFrameDuration == 10   \* Math.max(10, baseDuration / speedMultiplier)
Spring == 500           \* this.accX = (this.destX - this.x) / 500

\* ScatterEffect and Particle constants; speeds in tenths, frictions in
\* hundredths, so that 0.1, 0.8 * force and 0.85 are integers
Force == 3              \* this.config.force || 3
PrimaryReach == 30      \* scatterDistance factor of a primary particle
SecondaryReach == 25    \* scatterDistance factor of a secondary particle
ScatterFriction == 85   \* particle.friction = 0.85
NormalFriction == 92    \* Math.random() * 0.01 + 0.92, rounded down
ReturnSpeed == 1        \* velocity < 0.1

(***************************************************************************)
(* Helpers.                                                                *)
(***************************************************************************)
Min(a, b) == IF a <= b THEN a ELSE b

SeqsUpTo(S, n) == UNION {[1..k -> S] : k \in 1..n}

RECURSIVE IndexFrom(_, _, _)
IndexFrom(s, x, i) ==
    IF i > Len(s) THEN -1
    ELSE IF s[i] = x THEN i - 1
    ELSE IndexFrom(s, x, i + 1)

\* Array.prototype.indexOf: 0-based index of the first element equal to x, else -1
IndexOf(s, x) == IndexFrom(s, x, 1)

\* frames[i] for a 0-based index; undefined (NoFrame) outside the array
FrameAt(s, i) == IF i >= 0 /\ i < Len(s) THEN s[i + 1] ELSE NoFrame

VARIABLES
    \* ---- configuration of the animation (config.animation) ----
    cfgFrames,        \* config.animation.frames
    loop,             \* config.animation.loop
    autoStart,        \* config.animation.auto_start
    \* ---- FrameCache ----
    cached,           \* keys of frameCache.frames
    loadedCount,      \* frameCache.loadedCount
    totalCount,       \* frameCache.totalCount
    cacheInitialized, \* frameCache.isInitialized
    \* ---- AnimationSystem ----
    animationFrames,  \* this.animationFrames
    isPlaying,        \* this.isPlaying
    currentFrame,     \* this.currentFrame
    hasPlayedOnce,    \* this.hasPlayedOnce
    sinceFrame,       \* performance.now() - this.lastFrameTime, saturating
    floatOffset,      \* this.floatOffset: "null" or "captured"
    \* ---- environment of the driver ----
    rafAnim,          \* animate() callbacks scheduled with requestAnimationFrame
    loads,            \* image loads in flight: records [b |-> batch, i |-> index]
    batch,            \* number of loadAnimationFrames() calls so far
    \* ---- observations ----
    changedCount,     \* 'animationFrameChanged' signals since the last successful start
    stoppedCount,     \* 'animationStopped' signals dispatched
    completedOnce,    \* the sequence reached its wrap to index 0 and stopped there
    warned            \* console.warn('Frame not found in cache') has been logged

VARIABLES
    \* ---- FadeEffect ----
    fadeEnabled,      \* this.enabled
    fadeDuration,     \* this.duration
    fadeActive,       \* this.active
    fadeElapsed,      \* performance.now() - this.startTime, saturating
    fadeOpacity,      \* this.opacity * this.duration
    completeCount,    \* handleFadeComplete() calls since the last startFadeOut()
    \* ---- ScatterEffect and the particles it is given ----
    particles,        \* particle -> [x, destX, speed, friction, isScattered]
    effectIsScattered,   \* ScatterEffect.isScattered
    originalPositions,   \* ScatterEffect.originalPositions (Map particle -> destX)
    preDest,          \* destination of each particle before the scatter that
                      \* marked it scattered
    lastOp,           \* last effect call on each particle
    scatterCalls,     \* scatterParticles() calls so far
    reseeds,          \* createImageParticles() calls so far
    \* ---- ReliqParticleImage life cycle ----
    isInitialized,    \* this.isInitialized
    isDestroyed,      \* this.isDestroyed
    initAwaiting,     \* initialize() calls suspended at an await
    initCalls,        \* initialize() calls so far
    rafLoop,          \* tick callbacks scheduled with requestAnimationFrame
    passes,           \* update + render passes performed
    readyCount,       \* 'particleImageReady' signals dispatched
    passesAtDestroy,  \* value of passes when destroy() was last called
    firedAfterDestroy,   \* tick callbacks that fired after destroy()
    \* ---- InteractionManager, MouseHandler, TouchHandler ----
    onClick,          \* config.particles.interactivity.on_click
    onTouch,          \* config.particles.interactivity.on_touch
    onHover,          \* config.particles.interactivity.on_hover
    secondaryInteractive, \* config.secondary_particles.interactivity.enabled
    mouse,            \* MouseHandler.mouse: [x, y, click_x, click_y]
    touch,            \* TouchHandler.touch: [x, y]
    primaryAction     \* action resolved by the last applyPrimaryInteraction()

VARIABLES
    \* ---- InteractionManager.applyRepulsion and the particle it is given ----
    forceCurve,       \* args.force_curve
    detectionRadius,  \* args.detection_radius
    maxDisplacement,  \* args.max_displacement
    target,           \* the particle: [x, destX, vx]; y = destY = the pointer's y
    repulseElapsed,   \* Date.now() - particle.repulse_start_time, saturating;
                      \* NoTimer while repulse_start_time is null
    lastRepulse,      \* branch the last applyRepulsion() call took
    applies           \* applyRepulsion() calls so far

VARIABLES
    \* ---- ReliqParticleImage: the flow of stages ----
    flowStages,       \* this.flowState.stages: [type, enabled, play_once, auto_start]
    startIndex,       \* config.flow.current_stage_index
    stageIndex,       \* this.flowState.currentStageIndex
    autoProgress,     \* this.flowState.autoProgress
    scatterEnabled,   \* this.features.scatter: this.scatterEffect is not null
    clickListening,   \* handleFlowClick is registered on the canvas
    floatingDisabled, \* this.flowState.floatingDisabled
    flowStarted,      \* initializeFlow() has run
    animCfgLost,      \* animationSystem.config.animation was replaced by {loop: false}
    flowScatters,     \* scatterEffect.scatterParticles() calls made by the flow
    flowFades,        \* fadeEffect.startFadeOut() calls made by the flow
    handledStops      \* 'animationStopped' signals handleAnimationStopped has run for

VARIABLES
    \* ---- new ReliqParticleImage(container, config) ----
    userCfg,          \* the config argument, by what validateConfig reads of it
    containerFound,   \* the container argument resolves to an element
    constructed,      \* "no", "ok", or the kind of error the constructor threw
    thrownErrors,     \* the violations listed in the thrown error's message
    errorsThrown,     \* errors thrown by the constructor
    canvasAppended,   \* canvases appended to the container
    listeners,        \* event listeners registered
    subsystems        \* subsystems created

VARIABLES
    \* ---- ConfigMerger.setDefaults(config) ----
    features,         \* config.features: a toggle is "true", "false" or "undefined"
    userFlags,        \* the enabled flags as the user gave them
    mergedFlags,      \* the enabled flags of the configuration setDefaults returns
    defaultsSet       \* setDefaults() has returned

VARIABLES
    \* ---- SecondaryParticleSystem: random and around-image placement ----
    placementMode,    \* config.secondary_particles.placement_mode
    surface,          \* canvas width, in sample positions
    particleCount,    \* the target count computed from density and area
    placed,           \* x of the particles in this.particles
    placeIndex,       \* the loop variable i
    attempts,         \* the loop variable attempts
    skipped,          \* iterations that ended without a push
    placementDone     \* the for loop has ended

VARIABLES
    \* ---- Particle.update() in destination-seeking mode ----
    seeker,           \* the particle: [x, vx, friction], friction in hundredths
    ticks             \* update() calls so far

VARIABLES
    \* ---- the particles of the running system, in 1 / PosScale of a pixel ----
    swarm,            \* particle -> [x, destX, vx, friction, isScattered]
    swarmBefore,      \* destination of each particle before executeScatter()
    runScatters       \* executeScatter() calls so far

VARIABLES
    \* ---- updateSystems() with the pointer handlers at work ----
    interactTicks     \* updateSystems() passes performed

VARIABLES
    \* ---- the fade effect as ReliqParticleImage builds and triggers it ----
    particlesFadeOut, \* config.particles.fade_out: [enabled, duration_ms]
    topFadeOut,       \* config.fade_out: the same, or NoFadeOut when absent
    fadeFeature,      \* this.features.fade
    fadeEffectBuilt,  \* this.fadeEffect: "unset", "null" or "effect"
    fadeTriggers      \* executeFadeOut() calls so far

VARIABLES
    \* ---- CoreParticleSystem.createImageParticles ----
    pixelData,        \* the pixelData argument: [kind, width, height, data], data
                      \* the alpha byte of each pixel the array holds
    responsiveDensity,   \* calculateResponsiveDensity(config.particles.density)
    startScrambled,   \* config.particles.start_scrambled
    imgParticles,     \* this.particles: sequence of [x, y, destX, destY]
    imgBefore,        \* this.particles before the last call
    lastAtDestination,   \* the atDestination argument of the last call
    imgOutcome        \* "none", "created", or "rejected" (console.error, return)

VARIABLES
    \* ---- ReliqParticleImage.setAnimationSpeed ----
    baseDuration,     \* this.config.animation.frame_duration_ms, 0 when not set
    drvDuration,      \* animationSystem.config.animation.frame_duration_ms, 0
                      \* when not set
    speedCalls        \* setAnimationSpeed() calls with a valid multiplier

VARIABLES
    \* ---- two ReliqParticleImage instances on one page ----
    peers,            \* per instance: [animation, playing, frame, stage, scatters,
                      \* fades, reseeds]
    signals,          \* events dispatched on document so far
    signalBy          \* the instance whose driver dispatched the last one

VARIABLES
    \* ---- ReliqParticleImage: progressToNextStage / executeCurrentStage ----
    walkStages,       \* this.flowState.stages: [type, enabled]
    walkAnimation,    \* this.animationSystem && this.features.animation
    walkIndex,        \* this.flowState.currentStageIndex
    walkBefore,       \* currentStageIndex before the last call
    walkEvents,       \* detail.index of the 'particleFlowStageChanged' events the
                      \* last call dispatched, in order
    walkCall          \* the last call: "none", "initializeFlow", "progress"

VARIABLES
    \* ---- one ReliqParticleImage instance around destroy() ----
    goneDestroyed,    \* this.isDestroyed: the subsystems and the canvas are null
    goneDriver,       \* the AnimationSystem object: "idle" or "playing"
    goneNextStage,    \* type of the stage progressToNextStage() would execute
    gonePending,      \* callbacks still to fire: "resize" (debounce timer),
                      \* "init" (initialize() awaiting its loads)
    goneErrors,       \* TypeErrors raised by callbacks after destroy()
    goneLateSignals   \* 'animationFrameChanged' dispatched after destroy()

VARIABLES
    \* ---- window.particleImageDisplay and its registry ----
    instances,        \* the registry: tagId -> instance, 0 when there is no entry
    created,          \* per tagId, the instances constructed for it so far
    displayCalls      \* per call: [tag, phase, instance], phase "idle", "fetching",
                      \* "initializing", "resolved"; instance 0 for null

VARIABLES
    \* ---- attach() / detach() of the InteractionManager and its handlers ----
    mouseRevision,    \* 1: MouseHandler registering fresh bind() results,
                      \* 2: MouseHandler registering the functions bound at construction
    needs,            \* [mouse, touch]: shouldEnableMouse() / shouldEnableTouch()
    wiring,           \* [held, isAttached : per handler, managerAttached,
                      \*  listeners : per handler, listeners registered on the canvas
                      \*  for each of its event types]
    staleEvents,      \* events handled by a handler that is not attached
    attachCalls       \* calls made so far

cfgVars == <<cfgFrames, loop, autoStart>>
cacheVars == <<cached, loadedCount, totalCount, cacheInitialized, animationFrames>>
driverVars == <<isPlaying, currentFrame, hasPlayedOnce, sinceFrame, floatOffset,
                rafAnim, changedCount, stoppedCount, completedOnce, warned>>
animVars == <<cfgVars, cacheVars, driverVars, loads, batch>>

fadeCfgVars == <<fadeEnabled, fadeDuration>>
fadeStateVars == <<fadeActive, fadeElapsed, fadeOpacity, completeCount>>
fadeVars == <<fadeCfgVars, fadeStateVars>>

scatterVars == <<particles, effectIsScattered, originalPositions, preDest, lastOp,
                 scatterCalls, reseeds>>

loopVars == <<isInitialized, isDestroyed, initAwaiting, initCalls, rafLoop, passes,
              readyCount, passesAtDestroy, firedAfterDestroy>>

inputCfgVars == <<onClick, onTouch, onHover, secondaryInteractive>>
inputVars == <<inputCfgVars, mouse, touch, primaryAction>>

repulseCfgVars == <<forceCurve, detectionRadius, maxDisplacement>>
repulseVars == <<repulseCfgVars, target, repulseElapsed, lastRepulse, applies>>

\* The parts added to the first five
flowCfgVars == <<flowStages, startIndex, autoProgress, scatterEnabled, clickListening>>
flowVars == <<flowCfgVars, stageIndex, floatingDisabled, flowStarted, animCfgLost,
              flowScatters, flowFades, handledStops>>

constructVars == <<userCfg, containerFound, constructed, thrownErrors, errorsThrown,
                   canvasAppended, listeners, subsystems>>

defaultsVars == <<features, userFlags, mergedFlags, defaultsSet>>

placeCfgVars == <<placementMode, surface, particleCount>>
placeVars == <<placeCfgVars, placed, placeIndex, attempts, skipped, placementDone>>

seekVars == <<seeker, ticks>>
runVars == <<swarm, swarmBefore, runScatters>>

tickVars == <<interactTicks>>

secondVars == <<repulseVars, flowVars, constructVars, defaultsVars, placeVars, seekVars,
                runVars>>
fadeOutCfgVars == <<particlesFadeOut, topFadeOut, fadeFeature>>
fadeOutVars == <<fadeOutCfgVars, fadeEffectBuilt, fadeTriggers>>

imageCfgVars == <<pixelData, responsiveDensity, startScrambled>>
imageVars == <<imageCfgVars, imgParticles, imgBefore, lastAtDestination, imgOutcome>>

speedVars == <<baseDuration, drvDuration, speedCalls>>
pageVars == <<peers, signals, signalBy>>

thirdVars == <<tickVars, fadeOutVars, imageVars, speedVars, pageVars>>
walkVars == <<walkStages, walkAnimation, walkIndex, walkBefore, walkEvents, walkCall>>
goneVars == <<goneDestroyed, goneDriver, goneNextStage, gonePending, goneErrors,
              goneLateSignals>>
displayVars == <<instances, created, displayCalls>>
attachVars == <<mouseRevision, needs, wiring, staleEvents, attachCalls>>
fourthVars == <<walkVars, goneVars, displayVars, attachVars>>
moreVars == <<secondVars, thirdVars, fourthVars>>

notAnimVars == <<fadeVars, scatterVars, loopVars, inputVars, moreVars>>
notFadeVars == <<animVars, scatterVars, loopVars, inputVars, moreVars>>
notScatterVars == <<animVars, fadeVars, loopVars, inputVars, moreVars>>
notLoopVars == <<animVars, fadeVars, scatterVars, inputVars, moreVars>>
notInputVars == <<animVars, fadeVars, scatterVars, loopVars, moreVars>>
firstVars == <<animVars, fadeVars, scatterVars, loopVars, inputVars>>
notRepulseVars == <<fourthVars, thirdVars, runVars, animVars, fadeVars, scatterVars, loopVars, flowVars, constructVars,
                    defaultsVars, placeVars,
        seekVars>>
notFlowVars == <<fourthVars, thirdVars, runVars, fadeVars, scatterVars, loopVars, inputVars, repulseVars, constructVars,
                 defaultsVars, placeVars,
        seekVars>>
notConstructVars == <<fourthVars, thirdVars, runVars, firstVars, repulseVars, flowVars, defaultsVars, placeVars,
        seekVars>>
notDefaultsVars == <<fourthVars, thirdVars, runVars, firstVars, repulseVars, flowVars, constructVars, placeVars,
        seekVars>>
notRunVars == <<fourthVars, thirdVars, firstVars, repulseVars, flowVars, constructVars, defaultsVars, placeVars,
                seekVars>>
notSeekVars == <<fourthVars, thirdVars, runVars, firstVars, repulseVars, flowVars, constructVars, defaultsVars, placeVars>>
notPlaceVars == <<fourthVars, thirdVars, runVars, firstVars, repulseVars, flowVars, constructVars, defaultsVars,
        seekVars>>

notAnimImageVars == <<fourthVars, fadeVars, scatterVars, loopVars, inputVars, secondVars, tickVars,
                      fadeOutVars, speedVars, pageVars>>
notImageVars == <<fourthVars, firstVars, secondVars, tickVars, fadeOutVars, speedVars, pageVars>>
notPageVars == <<fourthVars, firstVars, secondVars, tickVars, fadeOutVars, imageVars, speedVars>>
\* What setAnimationSpeed() leaves alone outside the driver's configuration
notSpeedVars == <<fourthVars, fadeVars, scatterVars, loopVars, inputVars, repulseVars, constructVars,
                  defaultsVars, placeVars, seekVars, runVars, tickVars, fadeOutVars,
                  imageVars, pageVars>>
notFadeOutVars == <<fourthVars, speedVars, pageVars, imageVars, animVars, scatterVars, loopVars, inputVars, secondVars, tickVars>>
notTickVars == <<fourthVars, speedVars, pageVars, imageVars, fadeOutVars, animVars, fadeVars, scatterVars, loopVars, flowVars, constructVars,
                 defaultsVars, placeVars, seekVars, runVars>>

notWalkVars == <<firstVars, secondVars, thirdVars, goneVars, displayVars, attachVars>>
notGoneVars == <<firstVars, secondVars, thirdVars, walkVars, displayVars, attachVars>>
notDisplayVars == <<firstVars, secondVars, thirdVars, walkVars, goneVars, attachVars>>
notAttachVars == <<firstVars, secondVars, thirdVars, walkVars, goneVars, displayVars>>

vars == <<firstVars, moreVars>>

(***************************************************************************)
(* FrameCache                                                              *)
(***************************************************************************)
\* FrameCache.getFrame: the pixel buffer, or null ("missing")
getFrame(id) == IF id \in cached THEN "pixels" ELSE "missing"

\* FrameCache.isFullyLoaded
isFullyLoaded == loadedCount >= totalCount /\ totalCount > 0

\* FrameCache.getProgress, as the fraction <<numerator, denominator>>
getProgress == IF totalCount > 0 THEN <<loadedCount, totalCount>> ELSE <<0, 1>>

(***************************************************************************)
(* Faulty variants of the driver, used to test the properties below        *)
(***************************************************************************)
\* stop() that keeps the captured floating offset and dispatches nothing
StopSilently ==
    /\ stoppedCount < MaxStops
    /\ isPlaying' = FALSE
    /\ UNCHANGED <<notAnimVars, cfgVars, cacheVars, loads, batch, currentFrame, hasPlayedOnce,
                   sinceFrame, floatOffset, rafAnim, changedCount, stoppedCount,
                   completedOnce, warned>>

\* setFrame() without its cache test
FrameSetUnchecked(frameNum, cache, cur) == frameNum

(***************************************************************************)
(* AnimationSystem                                                         *)
(***************************************************************************)
\* The refusal test at the top of start(); animation.enabled holds in this model
StartRefused == isPlaying \/ (hasPlayedOnce /\ ~loop)

\* setFrame(frameNum): the frame that is current afterwards
FrameAfterSet(frameNum, cache, cur) == IF frameNum \in cache THEN frameNum ELSE cur

\* setFrame(frameNum) logs its warning and returns
WarnsOnSet(frameNum, cache) == frameNum \notin cache

\* The index animate() advances to from the current frame
NextIndex(frames, cur) ==
    IF Len(frames) = 0 THEN NaNIndex
    ELSE (IndexOf(frames, cur) + 1) % Len(frames)

\* animate() finds the frame due: deltaTime >= frame_duration_ms
FrameDue(delta) == delta >= FrameDuration

\* animate() stops instead of advancing (non-looping wrap to index 0)
WrapsToStop(frames, cur) == ~loop /\ NextIndex(frames, cur) = 0

\* The body of animate() for a driver whose fields are (playing, cur, fo),
\* deltaTime = delta, and cc signals since the start.  It sets the driver's
\* fields and the signal observations.
AnimateBody(delta, frames, cache, playing, cur, fo, cc) ==
    IF ~playing \/ ~FrameDue(delta) THEN
        \* not playing: return; frame not due: only reschedule
        /\ isPlaying' = playing
        /\ currentFrame' = cur
        /\ sinceFrame' = delta
        /\ floatOffset' = fo
        /\ changedCount' = cc
        /\ UNCHANGED <<stoppedCount, completedOnce, warned>>
    ELSE IF WrapsToStop(frames, cur) THEN
        \* this.stop(); return
        /\ isPlaying' = FALSE
        /\ floatOffset' = "null"
        /\ currentFrame' = cur
        /\ sinceFrame' = delta
        /\ changedCount' = cc
        /\ stoppedCount' = stoppedCount + 1
        /\ completedOnce' = TRUE
        /\ UNCHANGED warned
    ELSE
        \* setFrame(frames[nextIndex]); lastFrameTime = currentTime; dispatch
        /\ isPlaying' = TRUE
        /\ floatOffset' = fo
        /\ currentFrame' = FrameAfterSet(FrameAt(frames, NextIndex(frames, cur)), cache, cur)
        /\ sinceFrame' = 0
        /\ changedCount' = cc + 1
        /\ warned' = (warned \/ WarnsOnSet(FrameAt(frames, NextIndex(frames, cur)), cache))
        /\ UNCHANGED <<stoppedCount, completedOnce>>

\* Whether that run of animate() reaches its requestAnimationFrame call
Reschedules(delta, frames, playing, cur) ==
    playing /\ ~(FrameDue(delta) /\ WrapsToStop(frames, cur))

\* The part of start() after its refusal test, followed by its animate() call
StartBody(frames, cache) ==
    /\ hasPlayedOnce' = TRUE
    /\ AnimateBody(0, frames, cache, TRUE, FrameAt(frames, 0), "captured", 0)
    /\ rafAnim' = rafAnim
          + (IF Reschedules(0, frames, TRUE, FrameAt(frames, 0)) THEN 1 ELSE 0)

\* AnimationSystem.start() while fewer than cap callbacks are scheduled
StartUnder(cap) ==
    /\ rafAnim < cap
    /\ IF StartRefused
       THEN UNCHANGED driverVars
       ELSE StartBody(animationFrames, cached)
    /\ UNCHANGED <<notAnimVars, cfgVars, cacheVars, loads, batch>>

\* AnimationSystem.start()
Start == StartUnder(MaxChains)

\* AnimationSystem.stop()
Stop ==
    /\ stoppedCount < MaxStops
    /\ isPlaying' = FALSE
    /\ floatOffset' = "null"
    /\ stoppedCount' = stoppedCount + 1
    /\ UNCHANGED <<notAnimVars, cfgVars, cacheVars, loads, batch, currentFrame, hasPlayedOnce,
                   sinceFrame, rafAnim, changedCount, completedOnce, warned>>

\* AnimationSystem.setFrame(frameNum)
SetFrame(frameNum) ==
    /\ currentFrame' = FrameAfterSet(frameNum, cached, currentFrame)
    /\ warned' = (warned \/ WarnsOnSet(frameNum, cached))
    /\ UNCHANGED <<notAnimVars, cfgVars, cacheVars, loads, batch, isPlaying, hasPlayedOnce,
                   sinceFrame, floatOffset, rafAnim, changedCount, stoppedCount,
                   completedOnce>>

\* A scheduled animate() callback fires, d clock units after the last one:
\* what it does to the animation system
AnimateCallback(d) ==
    /\ rafAnim > 0
    /\ changedCount < MaxChanged
    /\ stoppedCount < MaxStops
    /\ AnimateBody(Min(sinceFrame + d, FrameDuration), animationFrames, cached,
                   isPlaying, currentFrame, floatOffset, changedCount)
    /\ rafAnim' = rafAnim - 1
          + (IF Reschedules(Min(sinceFrame + d, FrameDuration), animationFrames,
                            isPlaying, currentFrame)
             THEN 1 ELSE 0)
    /\ UNCHANGED <<cfgVars, cacheVars, loads, batch, hasPlayedOnce>>

\* The callback with nothing listening for 'animationFrameChanged'
AnimTick(d) ==
    /\ AnimateCallback(d)
    /\ UNCHANGED notAnimVars

\* AnimationSystem.reset()
Reset ==
    /\ isPlaying' = FALSE
    /\ currentFrame' = NoFrame
    /\ hasPlayedOnce' = FALSE
    /\ sinceFrame' = FrameDuration
    /\ floatOffset' = "null"
    /\ completedOnce' = FALSE
    /\ UNCHANGED <<notAnimVars, cfgVars, cacheVars, loads, batch, rafAnim, changedCount,
                   stoppedCount, warned>>

\* The continuation of Promise.all(loadPromises): mark the cache initialized
\* and, with auto_start, call start()
AllSettled(frames, cache) ==
    /\ cacheInitialized' = TRUE
    /\ IF autoStart /\ ~hasPlayedOnce /\ ~StartRefused
       THEN StartBody(frames, cache)
       ELSE UNCHANGED driverVars

\* AnimationSystem.initialize() -> loadAnimationFrames(): the cache is reset
\* (FrameCache.initialize) and one image load per listed frame is started
Initialize ==
    /\ batch < MaxInits
    /\ batch' = batch + 1
    /\ animationFrames' = cfgFrames
    /\ cached' = {}
    /\ loadedCount' = 0
    /\ totalCount' = Len(cfgFrames)
    /\ cacheInitialized' = FALSE
    /\ loads' = loads \cup {[b |-> batch', i |-> i] : i \in 1..Len(cfgFrames)}
    /\ UNCHANGED <<notAnimVars, cfgVars, driverVars>>

\* ReliqParticleImage.handleResize() with the image loaded and an animation
\* system: animationSystem.initialize() once more, whatever the driver does
HandleResize ==
    /\ batch >= 1
    /\ batch < MaxInits + MaxResizes
    /\ batch' = batch + 1
    /\ animationFrames' = cfgFrames
    /\ cached' = {}
    /\ loadedCount' = 0
    /\ totalCount' = Len(cfgFrames)
    /\ cacheInitialized' = FALSE
    /\ loads' = loads \cup {[b |-> batch', i |-> i] : i \in 1..Len(cfgFrames)}
    /\ UNCHANGED <<notAnimVars, cfgVars, driverVars>>

LastOfBatch(l) == \A m \in loads : m.b = l.b => m = l

\* img 'load': FrameCache.cacheFrame stores the pixels and counts the frame
FrameLoaded(l) ==
    /\ l \in loads
    /\ loads' = loads \ {l}
    /\ cached' = cached \cup {animationFrames[l.i]}
    /\ loadedCount' = loadedCount + 1
    /\ IF LastOfBatch(l)
       THEN AllSettled(animationFrames, cached')
       ELSE UNCHANGED <<cacheInitialized, driverVars>>
    /\ UNCHANGED <<notAnimVars, cfgVars, totalCount, animationFrames, batch>>

\* img 'error': the promise resolves, nothing is cached or counted
FrameFailed(l) ==
    /\ l \in loads
    /\ loads' = loads \ {l}
    /\ IF LastOfBatch(l)
       THEN AllSettled(animationFrames, cached)
       ELSE UNCHANGED <<cacheInitialized, driverVars>>
    /\ UNCHANGED <<notAnimVars, cfgVars, cached, loadedCount, totalCount, animationFrames, batch>>

\* initialize() together with the settling of all its loads, those at the
\* positions in ok successfully: the state its promise resolves in
InitializeDone(ok) ==
    /\ batch < MaxInits
    /\ loads = {}
    /\ batch' = batch + 1
    /\ animationFrames' = cfgFrames
    /\ cached' = {cfgFrames[i] : i \in ok}
    /\ loadedCount' = Cardinality(ok)
    /\ totalCount' = Len(cfgFrames)
    /\ AllSettled(cfgFrames, cached')
    /\ UNCHANGED <<notAnimVars, cfgVars, loads>>

\* State after the constructor, for every configuration explored
InitAnim ==
    /\ cfgFrames \in SeqsUpTo(FrameIds, MaxFrames)
    /\ loop \in BOOLEAN
    /\ autoStart \in BOOLEAN
    /\ cached = {}
    /\ loadedCount = 0
    /\ totalCount = 0
    /\ cacheInitialized = FALSE
    /\ animationFrames = <<>>
    /\ isPlaying = FALSE
    /\ currentFrame = NoFrame
    /\ hasPlayedOnce = FALSE
    /\ sinceFrame = FrameDuration
    /\ floatOffset = "null"
    /\ rafAnim = 0
    /\ loads = {}
    /\ batch = 0
    /\ changedCount = 0
    /\ stoppedCount = 0
    /\ completedOnce = FALSE
    /\ warned = FALSE

(***************************************************************************)
(* FadeEffect, driven by ReliqParticleImage.updateSystems                  *)
(***************************************************************************)
\* Saturation point of the fade timer: past every duration explored
ElapsedCap == MaxDuration + 1

\* this.opacity = 1 - Math.min(elapsed / duration, 1), times duration
OpacityAt(elapsed, duration) == duration - Min(elapsed, duration)

\* The value update() returns: progress >= 1
FadeComplete(elapsed, duration) == Min(elapsed, duration) >= duration

\* FadeEffect.startFadeOut()
StartFadeOut ==
    /\ IF ~fadeEnabled
       THEN UNCHANGED fadeStateVars
       ELSE /\ fadeElapsed' = 0
            /\ fadeOpacity' = fadeDuration
            /\ fadeActive' = TRUE
            /\ completeCount' = 0
    /\ UNCHANGED <<notFadeVars, fadeCfgVars>>

\* The effects step of updateSystems(), d clock units after the previous
\* one: fadeEffect.update() and, when it returns true, handleFadeComplete()
UpdateFade(d) ==
    /\ completeCount < MaxCompletions
    /\ IF ~fadeEnabled \/ ~fadeActive
       THEN UNCHANGED fadeStateVars
       ELSE /\ fadeElapsed' = Min(fadeElapsed + d, ElapsedCap)
            /\ fadeOpacity' = OpacityAt(fadeElapsed', fadeDuration)
            /\ completeCount' = completeCount
                   + (IF FadeComplete(fadeElapsed', fadeDuration) THEN 1 ELSE 0)
            /\ UNCHANGED fadeActive
    /\ UNCHANGED <<notFadeVars, fadeCfgVars>>

\* FadeEffect.reset()
FadeReset ==
    /\ fadeElapsed' = ElapsedCap
    /\ fadeOpacity' = fadeDuration
    /\ fadeActive' = FALSE
    /\ UNCHANGED <<notFadeVars, fadeCfgVars, completeCount>>

\* State after the FadeEffect constructor, for every configuration explored
InitFade ==
    /\ fadeEnabled \in BOOLEAN
    /\ fadeDuration \in 1..MaxDuration
    /\ fadeActive = FALSE
    /\ fadeElapsed = ElapsedCap
    /\ fadeOpacity = fadeDuration
    /\ completeCount = 0

(***************************************************************************)
(* ScatterEffect over two particles: 1 is primary, 2 is secondary          *)
(***************************************************************************)
Particles == {1, 2}

IsSecondary(p) == p = 2

\* Math.cos(scatterAngle) for the two angles explored, 0 and pi
Cosines == {-1, 1}

\* this.force * (particle.isSecondary ? 25 : 30)
ScatterDistance(p) == Force * (IF IsSecondary(p) THEN SecondaryReach ELSE PrimaryReach)

\* |(vx, vy)| after a scatter, in tenths: force, or force * 0.8
ScatterSpeed(p) == IF IsSecondary(p) THEN Force * 8 ELSE Force * 10

\* A particle as its constructor leaves it, at rest on its destination
NewParticle(pos, speed) ==
    [x |-> pos, destX |-> pos, speed |-> speed, friction |-> NormalFriction,
     isScattered |-> FALSE]

\* ScatterEffect.shouldReturn(particle)
shouldReturn(p) == particles[p].isScattered /\ particles[p].speed < ReturnSpeed

\* Draws of Math.random() are continuous: a scatter angle that lands exactly
\* on the particle's current or earlier destination has probability zero and
\* is left out
FreshCosines(p) ==
    {c \in Cosines :
        particles[p].x + c * ScatterDistance(p) \notin {particles[p].destX, preDest[p]}}

\* ScatterEffect.scatterParticles(particles), cos[p] the cosine drawn for p
ScatterParticles(cos) ==
    /\ scatterCalls < MaxScatters
    /\ scatterCalls' = scatterCalls + 1
    /\ originalPositions' =
           IF ~effectIsScattered
           THEN [p \in Particles |-> particles[p].destX]
           ELSE originalPositions
    /\ effectIsScattered' = TRUE
    /\ particles' =
           [p \in Particles |->
               [x |-> particles[p].x,
                destX |-> particles[p].x + cos[p] * ScatterDistance(p),
                speed |-> ScatterSpeed(p),
                friction |-> ScatterFriction,
                isScattered |-> TRUE]]
    /\ preDest' = [p \in Particles |->
                      IF particles[p].isScattered THEN preDest[p]
                      ELSE particles[p].destX]
    /\ lastOp' = [p \in Particles |-> "scattered"]
    /\ UNCHANGED <<notScatterVars, reseeds>>

\* ScatterEffect.returnParticle(particle), called once shouldReturn(particle)
ReturnParticle(p) ==
    /\ shouldReturn(p)
    /\ particles' =
           IF p \in DOMAIN originalPositions
           THEN [particles EXCEPT ![p].destX = originalPositions[p],
                                  ![p].friction = NormalFriction,
                                  ![p].isScattered = FALSE]
           ELSE particles
    /\ lastOp' = [lastOp EXCEPT ![p] = "returned"]
    /\ UNCHANGED <<notScatterVars, effectIsScattered, originalPositions, preDest,
                   scatterCalls, reseeds>>

\* Particle.update() repeated until the particle rests on its destination
ParticleSettles(p) ==
    /\ particles[p].x # particles[p].destX \/ particles[p].speed # 0
    /\ particles' = [particles EXCEPT ![p].x = particles[p].destX, ![p].speed = 0]
    /\ UNCHANGED <<notScatterVars, effectIsScattered, originalPositions, preDest,
                   lastOp, scatterCalls, reseeds>>

\* CoreParticleSystem.createImageParticles(): the primary particle is replaced
\* by a new object, which the Map of the effect has no entry for
CreateImageParticles(speed) ==
    /\ reseeds < MaxReseeds
    /\ reseeds' = reseeds + 1
    /\ particles' = [particles EXCEPT ![1] = NewParticle(0, speed)]
    /\ originalPositions' =
           [q \in DOMAIN originalPositions \ {1} |-> originalPositions[q]]
    /\ preDest' = [preDest EXCEPT ![1] = 0]
    /\ lastOp' = [lastOp EXCEPT ![1] = "created"]
    /\ UNCHANGED <<notScatterVars, effectIsScattered, scatterCalls>>

\* State after the ScatterEffect constructor, the particles created
InitScatter ==
    /\ particles = [p \in Particles |-> NewParticle(0, 0)]
    /\ effectIsScattered = FALSE
    /\ originalPositions = [p \in {} |-> 0]
    /\ preDest = [p \in Particles |-> 0]
    /\ lastOp = [p \in Particles |-> "created"]
    /\ scatterCalls = 0
    /\ reseeds = 0

(***************************************************************************)
(* ReliqParticleImage: initialize(), the tick loop and destroy()           *)
(***************************************************************************)
\* The first run of the tick callback, called directly by
\* startAnimationLoop(), and the ready signal that follows it
StartAnimationLoop ==
    /\ passes' = passes + 1
    /\ rafLoop' = rafLoop + 1
    /\ readyCount' = readyCount + 1

\* initialize() up to its first await
LoopInitialize ==
    /\ initCalls < MaxInitCalls
    /\ initCalls' = initCalls + 1
    /\ initAwaiting' = IF isInitialized \/ isDestroyed THEN initAwaiting
                       ELSE initAwaiting + 1
    /\ UNCHANGED <<notLoopVars, isInitialized, isDestroyed, rafLoop, passes,
                   readyCount, passesAtDestroy, firedAfterDestroy>>

\* initialize() from its last await on, the assets loaded.  After destroy()
\* the subsystems and the canvas are null: it throws into its catch block
InitializeResumes ==
    /\ initAwaiting > 0
    /\ initAwaiting' = initAwaiting - 1
    /\ IF isDestroyed
       THEN UNCHANGED <<isInitialized, rafLoop, passes, readyCount>>
       ELSE /\ isInitialized' = TRUE
            /\ StartAnimationLoop
    /\ UNCHANGED <<notLoopVars, isDestroyed, initCalls, passesAtDestroy,
                   firedAfterDestroy>>

\* initialize() whose image load is rejected: the catch block
InitializeFails ==
    /\ initAwaiting > 0
    /\ initAwaiting' = initAwaiting - 1
    /\ UNCHANGED <<notLoopVars, isInitialized, isDestroyed, initCalls, rafLoop,
                   passes, readyCount, passesAtDestroy, firedAfterDestroy>>

\* A scheduled tick callback fires
LoopTick ==
    /\ rafLoop > 0
    /\ IF isDestroyed
       THEN /\ rafLoop' = rafLoop - 1
            /\ firedAfterDestroy' = firedAfterDestroy + 1
            /\ UNCHANGED <<passes, passesAtDestroy>>
       ELSE /\ passes < MaxPasses
            /\ passes' = passes + 1
            /\ UNCHANGED <<rafLoop, firedAfterDestroy, passesAtDestroy>>
    /\ UNCHANGED <<notLoopVars, isInitialized, isDestroyed, initAwaiting, initCalls,
                   readyCount>>

\* ReliqParticleImage.destroy()
Destroy ==
    /\ isDestroyed' = TRUE
    /\ passesAtDestroy' = passes
    /\ UNCHANGED <<notLoopVars, isInitialized, initAwaiting, initCalls, rafLoop,
                   passes, readyCount, firedAfterDestroy>>

\* State after the ReliqParticleImage constructor
InitLoop ==
    /\ isInitialized = FALSE
    /\ isDestroyed = FALSE
    /\ initAwaiting = 0
    /\ initCalls = 0
    /\ rafLoop = 0
    /\ passes = 0
    /\ readyCount = 0
    /\ passesAtDestroy = 0
    /\ firedAfterDestroy = 0

(***************************************************************************)
(* InteractionManager with its MouseHandler and TouchHandler               *)
(***************************************************************************)
\* JS null for a coordinate, and for the resolved action
NoCoord == NoFrame
NoAction == "null"

\* Pointer positions relative to the canvas
Points == {<<1, 1>>, <<2, 1>>}

\* on_click / on_touch / on_hover as configured; action "" is an unset action
HandlerConfigs == [enabled : BOOLEAN, action : {"", "pulse"}]

\* a || b for an action name
OrDefault(a, b) == IF a = "" THEN b ELSE a

\* InteractionManager.shouldEnableMouse / shouldEnableTouch: the handler exists
shouldEnableMouse == onHover.enabled \/ onClick.enabled
shouldEnableTouch == onTouch.enabled \/ secondaryInteractive

isMouseOver == mouse.x # NoCoord /\ mouse.y # NoCoord
isMouseClicked == mouse.click_x # NoCoord /\ mouse.click_y # NoCoord
isTouchActive == touch.x # NoCoord /\ touch.y # NoCoord

\* InteractionManager.getInteractionState(), its three flags
getInteractionState ==
    [isMouseOver |-> shouldEnableMouse /\ isMouseOver,
     isMouseClicked |-> shouldEnableMouse /\ isMouseClicked,
     isTouchActive |-> shouldEnableTouch /\ isTouchActive]

\* getPrimaryAction() that tests the touch before the click
getPrimaryActionTouchFirst(state) ==
    IF state.isTouchActive /\ onTouch.enabled
    THEN OrDefault(onTouch.action, "repulse")
    ELSE IF state.isMouseClicked /\ onClick.enabled
    THEN OrDefault(onClick.action, "big_repulse")
    ELSE IF state.isMouseOver /\ onHover.enabled
    THEN OrDefault(onHover.action, "repulse")
    ELSE NoAction

\* InteractionManager.getPrimaryAction(state)
getPrimaryAction(state) ==
    IF state.isMouseClicked /\ onClick.enabled
    THEN OrDefault(onClick.action, "big_repulse")
    ELSE IF state.isTouchActive /\ onTouch.enabled
    THEN OrDefault(onTouch.action, "repulse")
    ELSE IF state.isMouseOver /\ onHover.enabled
    THEN OrDefault(onHover.action, "repulse")
    ELSE NoAction

\* MouseHandler.handleMouseMove
handleMouseMove(pt) ==
    /\ shouldEnableMouse
    /\ mouse' = [mouse EXCEPT !.x = pt[1], !.y = pt[2]]
    /\ UNCHANGED <<notInputVars, inputCfgVars, touch, primaryAction>>

\* MouseHandler.handleMouseLeave
handleMouseLeave ==
    /\ shouldEnableMouse
    /\ mouse' = [mouse EXCEPT !.x = NoCoord, !.y = NoCoord]
    /\ UNCHANGED <<notInputVars, inputCfgVars, touch, primaryAction>>

\* MouseHandler.handleMouseDown
handleMouseDown ==
    /\ shouldEnableMouse
    /\ mouse' = [mouse EXCEPT !.click_x = mouse.x, !.click_y = mouse.y]
    /\ UNCHANGED <<notInputVars, inputCfgVars, touch, primaryAction>>

\* MouseHandler.handleMouseUp
handleMouseUp ==
    /\ shouldEnableMouse
    /\ mouse' = [mouse EXCEPT !.click_x = NoCoord, !.click_y = NoCoord]
    /\ UNCHANGED <<notInputVars, inputCfgVars, touch, primaryAction>>

\* TouchHandler.handleTouchStart / handleTouchMove with one touch point
handleTouchAt(pt) ==
    /\ shouldEnableTouch
    /\ touch' = [x |-> pt[1], y |-> pt[2]]
    /\ UNCHANGED <<notInputVars, inputCfgVars, mouse, primaryAction>>

\* TouchHandler.handleTouchEnd
handleTouchEnd ==
    /\ shouldEnableTouch
    /\ touch' = [x |-> NoCoord, y |-> NoCoord]
    /\ UNCHANGED <<notInputVars, inputCfgVars, mouse, primaryAction>>

\* InteractionManager.applyPrimaryInteraction: the action it resolves
applyPrimaryInteraction ==
    /\ primaryAction' = getPrimaryAction(getInteractionState)
    /\ UNCHANGED <<notInputVars, inputCfgVars, mouse, touch>>

\* State after InteractionManager.initialize(), for every configuration
InitInput ==
    /\ onClick \in HandlerConfigs
    /\ onTouch \in HandlerConfigs
    /\ onHover \in HandlerConfigs
    /\ secondaryInteractive \in BOOLEAN
    /\ mouse = [x |-> NoCoord, y |-> NoCoord, click_x |-> NoCoord, click_y |-> NoCoord]
    /\ touch = [x |-> NoCoord, y |-> NoCoord]
    /\ primaryAction = NoAction

(***************************************************************************)
(* InteractionManager.applyRepulsion on one particle.  The particle and    *)
(* the pointer share their y coordinate, so distances are differences of   *)
(* x.  Velocity is counted in units of 0.02 / (repulse_duration *          *)
(* RepulseUnits)^2, in which the force the code adds is the integer        *)
(* ForceMultiplier * (max_displacement - current_displacement).            *)
(***************************************************************************)
\* particle.repulse_start_time === null
NoTimer == NoFrame

ForceCurves == {"linear", "top_heavy", "bottom_heavy"}

\* Positions of the particle along the pointer's row
Positions == 0..3

Abs(n) == IF n < 0 THEN -n ELSE n

Sign(n) == IF n < 0 THEN -1 ELSE IF n > 0 THEN 1 ELSE 0

\* applyRepulsion() that never cuts the force off
ForceAppliesAlways(e) == TRUE

\* elapsed_fraction < 0.8, the elapsed time e in clock units
ForceApplies(e) == 5 * e < 4 * RepulseUnits

\* force_multiplier for elapsed_fraction = e / RepulseUnits, times RepulseUnits^2
ForceMultiplier(curve, e) ==
    CASE curve = "top_heavy" ->
             RepulseUnits * RepulseUnits - (RepulseUnits - e) * (RepulseUnits - e)
      [] curve = "bottom_heavy" -> e * e
      [] OTHER -> e * RepulseUnits

\* state.touchX / state.mouseX: null without the handler
stateTouchX == IF shouldEnableTouch THEN touch.x ELSE NoCoord
stateMouseX == IF shouldEnableMouse THEN mouse.x ELSE NoCoord

\* const x = touchX !== null ? touchX : mouseX
PointerX == IF stateTouchX # NoCoord THEN stateTouchX ELSE stateMouseX

\* mouse_dist and current_displacement
PointerDistance == Abs(target.x - PointerX)
CurrentDisplacement == Abs(target.x - target.destX)

\* The timer as applyRepulsion() reads it after starting it when null
ElapsedInCall == IF repulseElapsed = NoTimer THEN 0 ELSE repulseElapsed

\* The branch of applyRepulsion() taken in the current state
RepulseBranch ==
    IF PointerX = NoCoord THEN "nopointer"
    ELSE IF PointerDistance = 0 THEN "onpointer"
    ELSE IF PointerDistance > detectionRadius THEN "outside"
    ELSE IF CurrentDisplacement >= maxDisplacement THEN "displaced"
    ELSE IF ForceApplies(ElapsedInCall) THEN "pushed"
    ELSE "cut"

\* particle.accX of the "pushed" branch
RepulseForce ==
    Sign(target.x - PointerX)
        * ForceMultiplier(forceCurve, ElapsedInCall)
        * (maxDisplacement - CurrentDisplacement)

\* applyRepulsion() without the else branch that resets the timer
ApplyRepulsionKeepsTimer ==
    /\ applies < MaxApplies
    /\ applies' = applies + 1
    /\ lastRepulse' = RepulseBranch
    /\ repulseElapsed' =
           CASE RepulseBranch \in {"pushed", "cut"} -> ElapsedInCall
             [] OTHER -> repulseElapsed
    /\ target' = IF RepulseBranch = "pushed"
                 THEN [target EXCEPT !.vx = target.vx + RepulseForce]
                 ELSE target
    /\ UNCHANGED <<notRepulseVars, inputVars, repulseCfgVars>>

\* InteractionManager.applyRepulsion(particle, args, state)
ApplyRepulsion ==
    /\ applies < MaxApplies
    /\ applies' = applies + 1
    /\ lastRepulse' = RepulseBranch
    /\ repulseElapsed' =
           CASE RepulseBranch \in {"pushed", "cut"} -> ElapsedInCall
             [] RepulseBranch = "outside" -> NoTimer
             [] OTHER -> repulseElapsed
    /\ target' = IF RepulseBranch = "pushed"
                 THEN [target EXCEPT !.vx = target.vx + RepulseForce]
                 ELSE target
    /\ UNCHANGED <<notRepulseVars, inputVars, repulseCfgVars>>

\* Date.now() advances by d clock units
RepulseClock(d) ==
    /\ repulseElapsed # NoTimer
    /\ repulseElapsed < RepulseUnits
    /\ repulseElapsed' = Min(repulseElapsed + d, RepulseUnits)
    /\ UNCHANGED <<notRepulseVars, inputVars, repulseCfgVars, target, lastRepulse, applies>>

\* Particle.update() calls have moved the particle to nx; the decay of the
\* velocity by friction is not followed
ParticleMoved(nx) ==
    /\ nx # target.x
    /\ target' = [target EXCEPT !.x = nx]
    /\ UNCHANGED <<notRepulseVars, inputVars, repulseCfgVars, repulseElapsed, lastRepulse,
                   applies>>

\* A particle at rest on its destination, for every argument set explored
InitRepulse ==
    /\ forceCurve \in ForceCurves
    /\ detectionRadius \in 1..2
    /\ maxDisplacement \in 1..2
    /\ target = [x |-> 1, destX |-> 1, vx |-> 0]
    /\ repulseElapsed = NoTimer
    /\ lastRepulse = "none"
    /\ applies = 0

(***************************************************************************)
(* ReliqParticleImage: the flow of stages and handleAnimationStopped.      *)
(* The animation and floating features are enabled.  'animationStopped' is *)
(* dispatched synchronously: no other operation runs between a stop and    *)
(* its handler.                                                            *)
(***************************************************************************)
\* A stage of config.flow.stages; play_once and auto_start undefined read as
\* TRUE (stage.play_once !== false, stage.auto_start !== false)
Stage(type, enabled, playOnce) ==
    [type |-> type, enabled |-> enabled, play_once |-> playOnce, auto_start |-> TRUE]

\* flow.stages of ConfigMerger.setDefaults; the user may give play_once:
\* false on the animation stage and enabled: false on disable_floating
FlowStages(playOnce, disableOn) ==
    << Stage("float", TRUE, TRUE),
       Stage("wait_for_click", TRUE, TRUE),
       Stage("animation", TRUE, playOnce),
       Stage("disable_floating", disableOn, TRUE),
       Stage("scatter", TRUE, TRUE),
       Stage("fade_out", TRUE, TRUE) >>

DefaultStages == FlowStages(TRUE, TRUE)

\* stages[i] exists and enabled !== false, for a 0-based index
StageOn(i) == i >= 0 /\ i < Len(flowStages) /\ flowStages[i + 1].enabled

\* isCurrentStage(type) with currentStageIndex = i
isCurrentStage(type, i) ==
    Len(flowStages) > 0 /\ StageOn(i) /\ flowStages[i + 1].type = type

RECURSIVE Landing(_)
\* currentStageIndex after executeCurrentStage() entered at index i: a
\* disabled stage passes on to progressToNextStage()
Landing(i) ==
    IF StageOn(i) \/ i >= Len(flowStages) - 1 THEN i ELSE Landing(i + 1)

\* currentStageIndex after progressToNextStage() at index i
Progressed(i) ==
    IF Len(flowStages) > 0 /\ i < Len(flowStages) - 1 THEN Landing(i + 1) ELSE i

\* The stage whose actions executeCurrentStage() entered at index i performs
Executed(i) ==
    IF Len(flowStages) > 0 /\ StageOn(Landing(i)) THEN flowStages[Landing(i) + 1]
    ELSE Stage("none", FALSE, FALSE)

\* The stage progressToNextStage() at index i executes
ExecutedByProgress(i) ==
    IF Len(flowStages) > 0 /\ i < Len(flowStages) - 1 THEN Executed(i + 1)
    ELSE Stage("none", FALSE, FALSE)

\* 1 when executeScatter() is run by the stage st and the effect exists
ScattersBy(st) == IF st.type = "scatter" /\ scatterEnabled THEN 1 ELSE 0

\* 1 when executeFadeOut() is run by the stage st
FadesBy(st) == IF st.type = "fade_out" THEN 1 ELSE 0

\* What executing the stage st does to the flow state and to the driver:
\* executeFloatStage, executeDisableFloating, executeScatter, executeFadeOut
\* and executeAnimationStage with its updateConfig() and start()
ExecuteStage(st) ==
    /\ floatingDisabled' = (CASE st.type = "float" -> FALSE
                              [] st.type = "disable_floating" -> TRUE
                              [] OTHER -> floatingDisabled)
    /\ animCfgLost' = (animCfgLost \/ (st.type = "animation" /\ st.play_once))
    /\ IF st.type = "animation" /\ st.auto_start /\ ~animCfgLost' /\ ~StartRefused
          /\ rafAnim < MaxChains
       THEN StartBody(animationFrames, cached)
       ELSE UNCHANGED driverVars

\* initialize(): initializeFlow(), after animationSystem.initialize() resolved
InitializeFlow ==
    /\ handledStops = stoppedCount
    /\ cacheInitialized
    /\ ~flowStarted
    /\ flowStarted' = TRUE
    /\ stageIndex' = Landing(stageIndex)
    /\ ExecuteStage(Executed(stageIndex))
    /\ flowScatters' = flowScatters + ScattersBy(Executed(stageIndex))
    /\ flowFades' = flowFades + FadesBy(Executed(stageIndex))
    /\ UNCHANGED <<notFlowVars, cfgVars, cacheVars, loads, batch, flowCfgVars, handledStops>>

\* handleFlowClick(event)
HandleFlowClick ==
    /\ handledStops = stoppedCount
    /\ clickListening
    /\ IF isCurrentStage("wait_for_click", stageIndex)
       THEN /\ stageIndex' = Progressed(stageIndex)
            /\ ExecuteStage(ExecutedByProgress(stageIndex))
            /\ flowScatters' = flowScatters + ScattersBy(ExecutedByProgress(stageIndex))
            /\ flowFades' = flowFades + FadesBy(ExecutedByProgress(stageIndex))
       ELSE /\ IF isCurrentStage("animation", stageIndex)
                  /\ ~flowStages[stageIndex + 1].auto_start
                  /\ ~animCfgLost /\ ~StartRefused /\ rafAnim < MaxChains
               THEN StartBody(animationFrames, cached)
               ELSE UNCHANGED driverVars
            /\ UNCHANGED <<stageIndex, floatingDisabled, animCfgLost, flowScatters,
                           flowFades>>
    /\ UNCHANGED <<notFlowVars, cfgVars, cacheVars, loads, batch, flowCfgVars, flowStarted,
                   handledStops>>

\* handleAnimationStopped(event), run for a dispatched 'animationStopped'
HandleAnimationStopped ==
    /\ handledStops < stoppedCount
    /\ handledStops' = handledStops + 1
    /\ LET ran == IF autoProgress THEN ExecutedByProgress(stageIndex)
                  ELSE Stage("none", FALSE, FALSE)
           idx == IF autoProgress THEN Progressed(stageIndex) ELSE stageIndex
       IN  /\ stageIndex' = idx
           /\ animCfgLost' = (animCfgLost \/ (ran.type = "animation" /\ ran.play_once))
           /\ floatingDisabled' =
                  (CASE isCurrentStage("disable_floating", idx) -> TRUE
                     [] ran.type = "float" -> FALSE
                     [] OTHER -> floatingDisabled)
           /\ flowScatters' = flowScatters + ScattersBy(ran)
                  + (IF isCurrentStage("scatter", idx) /\ scatterEnabled THEN 1 ELSE 0)
           /\ flowFades' = flowFades + FadesBy(ran)
                  + (IF isCurrentStage("fade_out", idx) THEN 1 ELSE 0)
           /\ IF ran.type = "animation" /\ ran.auto_start /\ ~animCfgLost'
                 /\ ~StartRefused /\ rafAnim < MaxChains
              THEN StartBody(animationFrames, cached)
              ELSE UNCHANGED driverVars
    /\ UNCHANGED <<notFlowVars, cfgVars, cacheVars, loads, batch, flowCfgVars, flowStarted>>

\* State after the ReliqParticleImage constructor, for every flow explored
InitFlow ==
    /\ \E po, dis \in BOOLEAN : flowStages = FlowStages(po, dis)
    /\ startIndex \in 0..2
    /\ stageIndex = startIndex
    /\ autoProgress \in BOOLEAN
    /\ scatterEnabled \in BOOLEAN
    /\ clickListening = isCurrentStage("wait_for_click", startIndex)
    /\ floatingDisabled = FALSE
    /\ flowStarted = FALSE
    /\ animCfgLost = FALSE
    /\ flowScatters = 0
    /\ flowFades = 0
    /\ handledStops = 0

(***************************************************************************)
(* ConfigMerger.validateConfig and the ReliqParticleImage constructor.     *)
(* A configuration is described by what validateConfig reads of it: a      *)
(* number field is "unset" (undefined or falsy), "number" (a finite        *)
(* number) or "other" (any other truthy value).                            *)
(***************************************************************************)
NumberFields == {"unset", "number", "other"}

UserConfigs ==
    {c \in [particles : BOOLEAN,            \* config.particles is given
            image : BOOLEAN,                \* config.image is given
            density : NumberFields,         \* config.particles.density
            sizeValue : NumberFields,       \* config.particles.size.value
            secondary : {"off", "grid", "unset", "spiral"},
                                            \* secondary_particles: not enabled,
                                            \* or enabled with this placement_mode
            frames : {"off", "none", "some"},
                                            \* animation: not enabled, or enabled
                                            \* with an empty / non-empty frames array
            frameDuration : NumberFields] : \* config.animation.frame_duration_ms
        /\ ~c.particles => (c.density = "unset" /\ c.sizeValue = "unset")
        /\ c.frames = "off" => c.frameDuration = "unset"}

\* errors.push(msg) when the test holds
PushIf(test, msg) == IF test THEN <<msg>> ELSE <<>>

\* validateConfig() that returns at its first violation
validateConfigFirstOnly(c) ==
    IF ~c.particles THEN <<"Missing particles configuration">>
    ELSE IF ~c.image THEN <<"Missing image configuration">>
    ELSE IF c.density = "other" THEN <<"Invalid particles density">>
    ELSE IF c.sizeValue = "other" THEN <<"Invalid particles size value">>
    ELSE IF c.secondary \in {"unset", "spiral"}
    THEN <<"Invalid secondary particles placement mode">>
    ELSE IF c.frames = "none" THEN <<"Animation enabled but no frames specified">>
    ELSE IF c.frameDuration = "other" THEN <<"Invalid animation frame duration">>
    ELSE <<>>

\* ConfigMerger.validateConfig(config).errors
validateConfig(c) ==
    PushIf(~c.particles, "Missing particles configuration")
    \o PushIf(~c.image, "Missing image configuration")
    \o PushIf(c.density = "other", "Invalid particles density")
    \o PushIf(c.sizeValue = "other", "Invalid particles size value")
    \o PushIf(c.secondary # "off" /\ c.secondary \notin {"grid", "random", "around_image"},
              "Invalid secondary particles placement mode")
    \o PushIf(c.frames = "none", "Animation enabled but no frames specified")
    \o PushIf(c.frames # "off" /\ c.frameDuration = "other",
              "Invalid animation frame duration")

\* initializeSystems(): the subsystems and the listeners of a valid configuration
SubsystemsOf(c) ==
    {"responsiveCalculator", "interactionManager", "primarySystem"}
        \cup (IF c.secondary # "off" THEN {"secondarySystem"} ELSE {})
        \cup (IF c.frames # "off" THEN {"animationSystem"} ELSE {})

ListenersOf(c) ==
    {"interaction", "resize"}
        \cup (IF c.frames # "off" THEN {"animationStopped", "animationFrameChanged"}
              ELSE {})

\* new ReliqParticleImage(container, config)
Construct ==
    /\ constructed = "no"
    /\ IF validateConfig(userCfg) # <<>>
       THEN /\ constructed' = "invalid"
            /\ thrownErrors' = validateConfig(userCfg)
            /\ errorsThrown' = errorsThrown + 1
            /\ UNCHANGED <<canvasAppended, listeners, subsystems>>
       ELSE IF ~containerFound
       THEN /\ constructed' = "nocontainer"
            /\ errorsThrown' = errorsThrown + 1
            /\ UNCHANGED <<thrownErrors, canvasAppended, listeners, subsystems>>
       ELSE /\ constructed' = "ok"
            /\ canvasAppended' = canvasAppended + 1
            /\ subsystems' = SubsystemsOf(userCfg)
            /\ listeners' = ListenersOf(userCfg)
            /\ UNCHANGED <<thrownErrors, errorsThrown>>
    /\ UNCHANGED <<notConstructVars, userCfg, containerFound>>

\* Before the constructor is called, for every configuration explored
InitConstruct ==
    /\ userCfg \in UserConfigs
    /\ containerFound \in BOOLEAN
    /\ constructed = "no"
    /\ thrownErrors = <<>>
    /\ errorsThrown = 0
    /\ canvasAppended = 0
    /\ listeners = {}
    /\ subsystems = {}

(***************************************************************************)
(* ConfigMerger.setDefaults: deepExtend(defaults, config), then            *)
(* normalizeConfig.  Of a configuration the model keeps the four enabled   *)
(* flags the feature toggles stand for.                                    *)
(***************************************************************************)
\* A JS boolean property: given as true or false, or absent
Tri == {"undefined", "true", "false"}

FlagNames == {"animation", "floating", "fade", "responsive"}

\* The enabled flags of the defaults object in setDefaults: animation has
\* no default; floating, fade_out and responsive default to enabled: false
DefaultFlags ==
    [n \in FlagNames |-> IF n = "animation" THEN "undefined" ELSE "false"]

\* Utils.deepExtend(defaults, config) on one flag: the user's value where
\* the user gave one, else the default
deepExtend(default, given) == IF given = "undefined" THEN default ELSE given

\* The test normalizeConfig makes on the toggle of flag n
ToggleAsks(n, f) ==
    IF n = "responsive" THEN f[n] # "false" ELSE f[n] = "true"

\* normalizeConfig(config) on the flag n of the merged configuration
normalizeConfig(n, f, merged) ==
    IF ToggleAsks(n, f) /\ merged[n] = "undefined" THEN "true" ELSE merged[n]

\* ConfigMerger.setDefaults(config)
SetDefaults ==
    /\ ~defaultsSet
    /\ defaultsSet' = TRUE
    /\ mergedFlags' =
           [n \in FlagNames |->
               normalizeConfig(n, features,
                   [m \in FlagNames |-> deepExtend(DefaultFlags[m], userFlags[m])])]
    /\ UNCHANGED <<notDefaultsVars, features, userFlags>>

\* Before setDefaults is called, for every configuration explored
InitDefaults ==
    /\ features \in [FlagNames -> Tri]
    /\ userFlags \in [FlagNames -> Tri]
    /\ mergedFlags = userFlags
    /\ defaultsSet = FALSE

(***************************************************************************)
(* SecondaryParticleSystem.createRandomParticles and                       *)
(* createAroundImageParticles, on one row of the canvas: the candidates    *)
(* Math.random() can produce are the sample positions of the row.          *)
(***************************************************************************)
\* Candidate positions: random placement samples inside the canvas (the disc
\* of radius min(width, height) / 2 around its centre); around-image
\* placement samples a disc larger by the buffer, which reaches outside
SamplePositions(mode, w) ==
    IF mode = "random" THEN {SampleStep * k : k \in 0..(w - 1)}
    ELSE {SampleStep * k : k \in -1..w}

\* hasOverlap() that finds every candidate free
hasOverlapNever(x, ps) == FALSE

\* Utils.hasOverlap(x, y, particles, minSpacing) on the row
hasOverlap(x, ps) == \E q \in ps : Abs(x - q) < MinSpacing

\* One pass of the do-while body: a candidate x is sampled.  The loop then
\* either samples again or ends the iteration, with a push if attempts < 50
Sample(x) ==
    /\ ~placementDone
    /\ placeIndex < particleCount
    /\ x \in SamplePositions(placementMode, surface)
    /\ IF attempts + 1 < AttemptBudget /\ hasOverlap(x, placed)
       THEN /\ attempts' = attempts + 1
            /\ UNCHANGED <<placed, placeIndex, skipped, placementDone>>
       ELSE /\ attempts' = 0
            /\ placed' = IF attempts + 1 < AttemptBudget THEN placed \cup {x} ELSE placed
            /\ skipped' = IF attempts + 1 < AttemptBudget THEN skipped ELSE skipped + 1
            /\ placeIndex' = placeIndex + 1
            /\ placementDone' = (placeIndex' >= particleCount)
    /\ UNCHANGED <<notPlaceVars, placeCfgVars>>

\* The for loop is entered with a target count of 0
NothingRequested ==
    /\ ~placementDone
    /\ particleCount = 0
    /\ placementDone' = TRUE
    /\ UNCHANGED <<notPlaceVars, placeCfgVars, placed, placeIndex, attempts, skipped>>

\* On entry of the placement method, for every surface and count explored
InitPlace ==
    /\ placementMode \in {"random", "around_image"}
    /\ surface \in 1..MaxSurface
    /\ particleCount \in 0..MaxTarget
    /\ placed = {}
    /\ placeIndex = 0
    /\ attempts = 0
    /\ skipped = 0
    /\ placementDone = FALSE

(***************************************************************************)
(* Particle.update() of a primary particle seeking its destination, in     *)
(* fixed point: positions and velocities in 1 / PosScale of a pixel, the   *)
(* friction in hundredths, every quotient rounded towards zero.            *)
(***************************************************************************)
\* n / d rounded towards zero: what is less than one unit is lost, as a
\* floating-point value that underflows
TruncDiv(n, d) == IF n >= 0 THEN n \div d ELSE -((-n) \div d)

\* The destination, the particle starting at 0
SeekDest == StartDistance * PosScale

\* Frictions explored, of the interval (0, 1): the constructor draws
\* [0.92, 0.93), a scatter sets 0.85
Frictions == {50, 85, 92, 99}

\* (this.vx + this.accX) * this.friction
DampedVelocity(v, acc, f) == TruncDiv((v + acc) * f, 100)

\* Particle.update(), the branch that seeks the destination
ParticleUpdate ==
    /\ ticks < MaxTicks
    /\ ticks' = ticks + 1
    /\ LET acc == TruncDiv(SeekDest - seeker.x, Spring)
           v == DampedVelocity(seeker.vx, acc, seeker.friction)
       IN  seeker' = [seeker EXCEPT !.vx = v, !.x = seeker.x + v]
    /\ UNCHANGED notSeekVars

\* A particle away from its destination with zero velocity
InitSeek ==
    /\ \E f \in Frictions : seeker = [x |-> 0, vx |-> 0, friction |-> f]
    /\ ticks = 0

(***************************************************************************)
(* The particles under the tick loop after executeScatter(): particle 1 a  *)
(* primary Particle, particle 2 a SecondaryParticle without random or      *)
(* restless movement.  Fixed point as for the seeking particle.            *)
(***************************************************************************)
\* velocity < 0.1
SlowerThanReturn(v) == 10 * Abs(v) < PosScale

\* this.vx = (this.vx + this.accX) * this.friction; this.x += this.vx
SeekStep(q) ==
    LET acc == TruncDiv(q.destX - q.x, Spring)
        v == DampedVelocity(q.vx, acc, q.friction)
    IN  [q EXCEPT !.vx = v, !.x = q.x + v]

\* Particle.update(): a primary particle seeks its destination and nothing
\* else
PrimaryUpdate(q) == SeekStep(q)

\* SecondaryParticle.updateScatterMovement()
updateScatterMovement(q) ==
    LET moved == SeekStep(q)
    IN  IF SlowerThanReturn(moved.vx)
        THEN [moved EXCEPT !.isScattered = FALSE, !.friction = NormalFriction]
        ELSE moved

\* SecondaryParticle.update()
SecondaryUpdate(q) ==
    IF q.isScattered THEN updateScatterMovement(q)
    ELSE LET v == TruncDiv(q.vx * q.friction, 100)
         IN  [q EXCEPT !.vx = v, !.x = q.x + v]

\* ReliqParticleImage.updateSystems(): updateParticles() of both systems
UpdateSystems ==
    /\ swarm' = [p \in Particles |->
                    IF IsSecondary(p) THEN SecondaryUpdate(swarm[p])
                    ELSE PrimaryUpdate(swarm[p])]
    /\ UNCHANGED <<notRunVars, swarmBefore, runScatters>>

\* ReliqParticleImage.executeScatter(): scatterParticles() on all particles,
\* cos[p] the cosine drawn for p
ExecuteScatter(cos) ==
    /\ runScatters < MaxRunScatters
    /\ runScatters' = runScatters + 1
    /\ swarmBefore' = [p \in Particles |->
                          IF swarm[p].isScattered THEN swarmBefore[p]
                          ELSE swarm[p].destX]
    /\ swarm' = [p \in Particles |->
                    [x |-> swarm[p].x,
                     destX |-> swarm[p].x + cos[p] * ScatterDistance(p) * PosScale,
                     vx |-> cos[p] * ScatterSpeed(p) * (PosScale \div 10),
                     friction |-> ScatterFriction,
                     isScattered |-> TRUE]]
    /\ UNCHANGED notRunVars

\* The particles created, at rest on their destinations
InitRun ==
    /\ swarm = [p \in Particles |->
                   [x |-> 0, destX |-> 0, vx |-> 0, friction |-> NormalFriction,
                    isScattered |-> FALSE]]
    /\ swarmBefore = [p \in Particles |-> 0]
    /\ runScatters = 0

\* updateSystems() passes: none performed yet
InitTick == interactTicks = 0

(***************************************************************************)
(* The fade effect inside ReliqParticleImage: its construction by          *)
(* initializeSystems(), executeFadeOut() and the effects step of           *)
(* updateSystems().  Durations are in clock units.                         *)
(***************************************************************************)
\* config.fade_out is absent
NoFadeOut == [enabled |-> FALSE, duration_ms |-> 0]

FadeOutSettings == [enabled : BOOLEAN, duration_ms : {2, MaxDuration}]

\* this.duration = this.config.duration_ms || 1000: the default is kept as
\* the longest duration explored
DefaultFadeDuration == MaxDuration

\* FadeEffect.constructor(config): this.config = config?.fade_out || {}
FadeEffectConfig(config) == config.fade_out

\* initializeSystems(): this.fadeEffect = this.features.fade
\*     ? new FadeEffect(this.config) : null
BuildFadeEffect ==
    /\ fadeEffectBuilt = "unset"
    /\ fadeEffectBuilt' = IF fadeFeature THEN "effect" ELSE "null"
    /\ LET own == FadeEffectConfig([particles |-> [fade_out |-> particlesFadeOut],
                                    fade_out |-> topFadeOut])
       IN  IF fadeFeature
           THEN /\ fadeEnabled' = own.enabled
                /\ fadeDuration' = IF own.duration_ms = 0 THEN DefaultFadeDuration
                                   ELSE own.duration_ms
                /\ fadeOpacity' = fadeDuration'
           ELSE UNCHANGED <<fadeEnabled, fadeDuration, fadeOpacity>>
    /\ UNCHANGED <<notFadeOutVars, fadeOutCfgVars, fadeTriggers, fadeActive, fadeElapsed,
                   completeCount>>

\* executeFadeOut(): if (this.fadeEffect) this.fadeEffect.startFadeOut()
ExecuteFadeOut ==
    /\ fadeEffectBuilt # "unset"
    /\ fadeTriggers < MaxFadeTriggers
    /\ fadeTriggers' = fadeTriggers + 1
    /\ IF fadeEffectBuilt = "effect" /\ fadeEnabled
       THEN /\ fadeElapsed' = 0
            /\ fadeOpacity' = fadeDuration
            /\ fadeActive' = TRUE
            /\ completeCount' = 0
       ELSE UNCHANGED fadeStateVars
    /\ UNCHANGED <<notFadeOutVars, fadeOutCfgVars, fadeEffectBuilt, fadeCfgVars>>

\* The effects step of updateSystems(): if (this.fadeEffect) and update()
\* returns true, handleFadeComplete() clears the particles and dispatches
\* 'particleAnimationComplete'
UpdateBuiltFade(d) ==
    /\ fadeEffectBuilt # "unset"
    /\ completeCount < MaxCompletions
    /\ IF fadeEffectBuilt # "effect" \/ ~fadeEnabled \/ ~fadeActive
       THEN UNCHANGED fadeStateVars
       ELSE /\ fadeElapsed' = Min(fadeElapsed + d, ElapsedCap)
            /\ fadeOpacity' = OpacityAt(fadeElapsed', fadeDuration)
            /\ completeCount' = completeCount
                   + (IF FadeComplete(fadeElapsed', fadeDuration) THEN 1 ELSE 0)
            /\ UNCHANGED fadeActive
    /\ UNCHANGED <<notFadeOutVars, fadeOutVars, fadeCfgVars>>

\* The constructor has merged the configuration: features.fade is the user's
\* override or, without one, particles.fade_out.enabled === true
InitFadeOut ==
    /\ particlesFadeOut \in FadeOutSettings
    /\ topFadeOut \in FadeOutSettings \cup {NoFadeOut}
    /\ fadeFeature \in {TRUE, particlesFadeOut.enabled}
    /\ fadeEffectBuilt = "unset"
    /\ fadeTriggers = 0

FadeOutAtRest ==
    /\ InitFadeOut
    /\ particlesFadeOut = [enabled |-> FALSE, duration_ms |-> 2]
    /\ topFadeOut = NoFadeOut
    /\ ~fadeFeature

(***************************************************************************)
(* CoreParticleSystem.createImageParticles(pixelData, atDestination).  The *)
(* data array is kept as one alpha byte per pixel it holds: the byte at    *)
(* index (i + j * width) * 4 + 3 exists when pixel i + j * width does.     *)
(***************************************************************************)
\* Alpha bytes explored: on the threshold and just above it
AlphaBytes == {AlphaThreshold, AlphaThreshold + 1}

\* The pixelData arguments explored: null, an object without data, and
\* buffers of every size from 0 x 0 on, the data array whole or one pixel
\* short
PixelDatas ==
    {[kind |-> k, width |-> 0, height |-> 0, data |-> <<>>] : k \in {"null", "nodata"}}
    \cup UNION {UNION {UNION {
            {[kind |-> "buffer", width |-> w, height |-> h, data |-> d] :
                d \in [1..n -> AlphaBytes]} :
            n \in {w * h} \cup (IF w * h > 0 THEN {w * h - 1} ELSE {})} :
            h \in 0..MaxImgHeight} : w \in 0..MaxImgWidth}

\* Math.round(a / b) for a >= 0, b > 0
RoundedQuotient(a, b) == (2 * a + b) \div (2 * b)

\* const increment = Math.max(1, Math.round(pixelData.width / responsiveDensity))
Increment(pd, density) ==
    IF RoundedQuotient(pd.width, density) > 1 THEN RoundedQuotient(pd.width, density)
    ELSE 1

\* The opacity test that lets the threshold itself pass
OpaqueFromThreshold(pd, i, j) ==
    /\ i + j * pd.width < Len(pd.data)
    /\ pd.data[i + j * pd.width + 1] >= AlphaThreshold

\* pixelIndex < pixelData.data.length && pixelData.data[pixelIndex] > 128
Opaque(pd, i, j) ==
    /\ i + j * pd.width < Len(pd.data)
    /\ pd.data[i + j * pd.width + 1] > AlphaThreshold

\* Math.random() * this.canvas.width for the k-th particle pushed: the draws
\* of one call alternate between the two ends of the canvas, from seed on
ScrambledAt(seed, k) == ((seed + k) % 2) * CanvasSize

\* new Particle(initX, initY, destX, destY, ...)
ImageParticle(i, j, atDestination, scrambled, seed, k) ==
    IF atDestination \/ ~scrambled
    THEN [x |-> i, y |-> j, destX |-> i, destY |-> j]
    ELSE [x |-> ScrambledAt(seed, k), y |-> ScrambledAt(seed + 1, k),
          destX |-> i, destY |-> j]

RECURSIVE PixelLoop(_, _, _, _, _, _, _, _)
\* for (i ...; i += increment) for (j ...; j += increment), entered at (i, j)
\* with the particles acc pushed so far
PixelLoop(pd, inc, atDestination, scrambled, seed, i, j, acc) ==
    IF i >= pd.width THEN acc
    ELSE IF j >= pd.height
    THEN PixelLoop(pd, inc, atDestination, scrambled, seed, i + inc, 0, acc)
    ELSE PixelLoop(pd, inc, atDestination, scrambled, seed, i, j + inc,
                   IF Opaque(pd, i, j)
                   THEN Append(acc, ImageParticle(i, j, atDestination, scrambled, seed,
                                                  Len(acc)))
                   ELSE acc)

\* !pixelData || !pixelData.data || !pixelData.width || !pixelData.height
InvalidPixelData(pd) == pd.kind # "buffer" \/ pd.width = 0 \/ pd.height = 0

\* createImageParticles(pixelData, atDestination), seed the state of
\* Math.random()
CreateParticlesFrom(atDestination, seed) ==
    /\ imgBefore' = imgParticles
    /\ lastAtDestination' = atDestination
    /\ IF InvalidPixelData(pixelData)
       THEN /\ imgOutcome' = "rejected"
            /\ UNCHANGED imgParticles
       ELSE /\ imgOutcome' = "created"
            /\ imgParticles' =
                   PixelLoop(pixelData, Increment(pixelData, responsiveDensity),
                             atDestination, startScrambled, seed, 0, 0, <<>>)
    /\ UNCHANGED <<notImageVars, imageCfgVars>>

\* A particle left from an earlier image
EarlierParticles ==
    << [x |-> CanvasSize, y |-> CanvasSize, destX |-> CanvasSize, destY |-> CanvasSize] >>

\* Before the call, for every argument and configuration explored
InitImage ==
    /\ pixelData \in PixelDatas
    /\ responsiveDensity \in {1, 2, 4}
    /\ startScrambled \in BOOLEAN
    /\ imgParticles \in {<<>>, EarlierParticles}
    /\ imgBefore = imgParticles
    /\ lastAtDestination = FALSE
    /\ imgOutcome = "none"

ImageAtRest ==
    /\ InitImage
    /\ pixelData = [kind |-> "null", width |-> 0, height |-> 0, data |-> <<>>]
    /\ responsiveDensity = 1
    /\ ~startScrambled
    /\ imgParticles = <<>>

(***************************************************************************)
(* ReliqParticleImage.handleAnimationFrameChanged, the listener the        *)
(* animation feature registers for 'animationFrameChanged'.  The event is  *)
(* dispatched synchronously, so the listener runs inside animate().        *)
(***************************************************************************)
\* The pixel data the cache holds for frame f: two pixels, the opaque one
\* on the left for even frames and on the right for odd ones
FramePixels(f) ==
    [kind |-> "buffer", width |-> 2, height |-> 1,
     data |-> IF f % 2 = 0 THEN <<AlphaThreshold + 1, AlphaThreshold>>
              ELSE <<AlphaThreshold, AlphaThreshold + 1>>]

\* AnimationSystem.getCurrentFramePixels(): null without a current frame,
\* else frameCache.getFrame(currentFrame), null when the cache lacks it
HasCurrentFramePixels(cur, cache) == cur # NoFrame /\ cur \in cache

\* handleAnimationFrameChanged(): createImageParticles(pixelData, true) when
\* the animation system has pixels for its current frame
HandleAnimationFrameChanged(cur, cache) ==
    IF HasCurrentFramePixels(cur, cache)
    THEN /\ pixelData' = FramePixels(cur)
         /\ imgBefore' = imgParticles
         /\ lastAtDestination' = TRUE
         /\ imgOutcome' = "created"
         /\ imgParticles' =
                PixelLoop(FramePixels(cur), Increment(FramePixels(cur), responsiveDensity),
                          TRUE, startScrambled, 0, 0, 0, <<>>)
         /\ UNCHANGED <<responsiveDensity, startScrambled>>
    ELSE UNCHANGED imageVars

\* A scheduled animate() callback fires with the listener registered
AnimateAndNotify(d) ==
    /\ AnimateCallback(d)
    /\ IF changedCount' = changedCount + 1
       THEN HandleAnimationFrameChanged(currentFrame', cached)
       ELSE UNCHANGED imageVars
    /\ UNCHANGED notAnimImageVars

\* The primary particles of the first frame's image as initialize() makes
\* them: createImageParticles(pixelData), scrambled when so configured
InitFrameParticles ==
    /\ pixelData = FramePixels(0)
    /\ responsiveDensity = 2
    /\ startScrambled \in BOOLEAN
    /\ imgParticles = PixelLoop(pixelData, Increment(pixelData, responsiveDensity),
                                FALSE, startScrambled, 0, 0, 0, <<>>)
    /\ imgBefore = <<>>
    /\ lastAtDestination = FALSE
    /\ imgOutcome = "created"

(***************************************************************************)
(* ReliqParticleImage.setAnimationSpeed(speedMultiplier) with an animation *)
(* system, and the AnimationSystem.updateConfig() it calls.  The driver    *)
(* reads its own copy of the configuration: loop and animCfgLost stand for *)
(* animationSystem.config.animation.loop and for the loss of its enabled   *)
(* flag.                                                                   *)
(***************************************************************************)
\* Multipliers for which Utils.isValidNumber holds, dividing the durations
Multipliers == {1, 2, 30}

\* Math.max(10, baseDuration / speedMultiplier), baseDuration defaulted
SpedUpDuration(base, m) ==
    LET b == IF base = 0 THEN DefaultFrameDuration ELSE base
    IN  IF b \div m > ShortestFrameDuration THEN b \div m ELSE ShortestFrameDuration

\* setAnimationSpeed(m): updateConfig({animation: {frame_duration_ms}}), whose
\* { ...this.config, ...newConfig } puts the new animation section in place
\* of the driver's: enabled and loop are then undefined
setAnimationSpeed(m) ==
    /\ speedCalls < MaxSpeedCalls
    /\ speedCalls' = speedCalls + 1
    /\ drvDuration' = SpedUpDuration(baseDuration, m)
    /\ loop' = FALSE
    /\ animCfgLost' = TRUE
    /\ UNCHANGED <<notSpeedVars, baseDuration, cfgFrames, autoStart, cacheVars, driverVars,
                   loads, batch, flowCfgVars, stageIndex, floatingDisabled, flowStarted,
                   flowScatters, flowFades, handledStops>>

\* After construction: the driver was given the configuration itself
InitSpeed ==
    /\ baseDuration \in {0, 60}
    /\ drvDuration = baseDuration
    /\ speedCalls = 0

SpeedAtRest == InitSpeed /\ baseDuration = 0

(***************************************************************************)
(* Two ReliqParticleImage instances on one page, built from one            *)
(* configuration with all frames cached.  An instance with an animation    *)
(* system registers its handlers on document; each driver dispatches its   *)
(* events on document, synchronously.                                      *)
(***************************************************************************)
Instances == {1, 2}

\* An instance after initialize(); animation: it has an animation system
NewPeer(animation) ==
    [animation |-> animation, playing |-> FALSE, played |-> FALSE, frame |-> NoFrame,
     stage |-> startIndex, scatters |-> 0, fades |-> 0, reseeds |-> 0]

\* AnimationSystem.start() on the instance q
StartedPeer(q) ==
    IF q.playing \/ (q.played /\ ~loop) THEN q
    ELSE [q EXCEPT !.playing = TRUE, !.played = TRUE, !.frame = FrameAt(cfgFrames, 0)]

\* executeAnimationStage(st) on q: with play_once the driver's animation
\* section is replaced and start() returns at once
AnimationStageRun(q, st) ==
    IF st.type = "animation" /\ st.auto_start /\ ~st.play_once THEN StartedPeer(q) ELSE q

\* handleAnimationStopped(event) run by the instance q
OnAnimationStopped(q) ==
    LET ran == IF autoProgress THEN ExecutedByProgress(q.stage)
               ELSE Stage("none", FALSE, FALSE)
        idx == IF autoProgress THEN Progressed(q.stage) ELSE q.stage
    IN  [AnimationStageRun(q, ran) EXCEPT
            !.stage = idx,
            !.scatters = @ + ScattersBy(ran)
                + (IF isCurrentStage("scatter", idx) /\ scatterEnabled THEN 1 ELSE 0),
            !.fades = @ + FadesBy(ran)
                + (IF isCurrentStage("fade_out", idx) THEN 1 ELSE 0)]

\* handleAnimationFrameChanged(event) run by the instance q: its own current
\* frame's pixels re-seed its primary particles
OnAnimationFrameChanged(q) ==
    IF q.frame # NoFrame THEN [q EXCEPT !.reseeds = @ + 1] ELSE q

\* document.dispatchEvent(event) over the instances ps: every registered
\* handler runs
Dispatched(event, ps) ==
    [j \in Instances |->
        IF ~ps[j].animation THEN ps[j]
        ELSE IF event = "animationStopped" THEN OnAnimationStopped(ps[j])
        ELSE OnAnimationFrameChanged(ps[j])]

\* The driver of instance i is started
PeerStart(i) ==
    /\ peers[i].animation
    /\ StartedPeer(peers[i]) # peers[i]
    /\ peers' = [peers EXCEPT ![i] = StartedPeer(peers[i])]
    /\ UNCHANGED <<notPageVars, signals, signalBy>>

\* An animate() callback of instance i's driver with a frame due: stop() at
\* the wrap of a non-looping sequence, else the next frame and its event
PeerAnimate(i) ==
    /\ peers[i].animation
    /\ peers[i].playing
    /\ signals < MaxSignals
    /\ signals' = signals + 1
    /\ signalBy' = i
    /\ IF ~loop /\ NextIndex(cfgFrames, peers[i].frame) = 0
       THEN peers' = Dispatched("animationStopped",
                                [peers EXCEPT ![i].playing = FALSE])
       ELSE peers' = Dispatched("animationFrameChanged",
                                [peers EXCEPT ![i].frame =
                                    FrameAt(cfgFrames, NextIndex(cfgFrames, peers[i].frame))])
    /\ UNCHANGED notPageVars

\* stopAnimation() on instance i: AnimationSystem.stop()
PeerStop(i) ==
    /\ peers[i].animation
    /\ signals < MaxSignals
    /\ signals' = signals + 1
    /\ signalBy' = i
    /\ peers' = Dispatched("animationStopped", [peers EXCEPT ![i].playing = FALSE])
    /\ UNCHANGED notPageVars

\* The page once both instances are initialized
InitPage ==
    /\ peers \in [Instances -> {NewPeer(a) : a \in BOOLEAN}]
    /\ signals = 0
    /\ signalBy = 0

PageAtRest == InitPage /\ \A i \in Instances : ~peers[i].animation

(***************************************************************************)
(* ReliqParticleImage.progressToNextStage and executeCurrentStage, which   *)
(* call each other.  Of a stage the index depends on its enabled flag and  *)
(* on whether it is an 'animation' stage met without an animation system.  *)
(***************************************************************************)
WalkStage == [type : {"float", "animation"}, enabled : BOOLEAN]

\* The result of a call: the index reached and the events dispatched
Walked(i, events) == [index |-> i, events |-> events]

RECURSIVE progressToNextStage(_, _, _), executeCurrentStage(_, _, _)
\* progressToNextStage() entered with currentStageIndex = i
progressToNextStage(stages, anim, i) ==
    IF Len(stages) = 0 THEN Walked(i, <<>>)
    ELSE IF i < Len(stages) - 1
    THEN LET r == executeCurrentStage(stages, anim, i + 1)
         IN  Walked(r.index, Append(r.events, r.index))
    ELSE Walked(i, <<>>)

\* executeCurrentStage() entered with currentStageIndex = i
executeCurrentStage(stages, anim, i) ==
    IF Len(stages) = 0 THEN Walked(i, <<>>)
    ELSE IF i < 0 \/ i >= Len(stages) \/ ~stages[i + 1].enabled
    THEN progressToNextStage(stages, anim, i)
    ELSE IF stages[i + 1].type = "animation" /\ ~anim
    THEN progressToNextStage(stages, anim, i)
    ELSE Walked(i, <<>>)

\* executeCurrentStage() that never passes a stage on
executeCurrentStageInPlace(stages, anim, i) == Walked(i, <<>>)

\* initializeFlow(): executeCurrentStage() when there are stages
WalkInitializeFlow ==
    /\ walkCall = "none"
    /\ walkCall' = "initializeFlow"
    /\ walkBefore' = walkIndex
    /\ walkIndex' = executeCurrentStage(walkStages, walkAnimation, walkIndex).index
    /\ walkEvents' = executeCurrentStage(walkStages, walkAnimation, walkIndex).events
    /\ UNCHANGED <<notWalkVars, walkStages, walkAnimation>>

\* progressToNextStage() called by a click or by handleAnimationStopped
WalkProgress ==
    /\ walkCall # "none"
    /\ walkCall' = "progress"
    /\ walkBefore' = walkIndex
    /\ walkIndex' = progressToNextStage(walkStages, walkAnimation, walkIndex).index
    /\ walkEvents' = progressToNextStage(walkStages, walkAnimation, walkIndex).events
    /\ UNCHANGED <<notWalkVars, walkStages, walkAnimation>>

\* After the constructor, for every stage list explored and every
\* current_stage_index inside it
InitWalk ==
    /\ walkStages \in UNION {[1..n -> WalkStage] : n \in 0..MaxStages}
    /\ walkAnimation \in BOOLEAN
    /\ walkIndex \in {0} \cup (0..(Len(walkStages) - 1))
    /\ walkBefore = walkIndex
    /\ walkEvents = <<>>
    /\ walkCall = "none"

WalkAtRest == InitWalk /\ walkStages = <<>> /\ ~walkAnimation

(***************************************************************************)
(* One ReliqParticleImage instance with an animation system, around        *)
(* destroy().  destroy() sets isDestroyed, detaches the interaction        *)
(* manager and nulls canvas and subsystems; the window and document        *)
(* listeners of setupEventListeners, the debounce timer, a pending         *)
(* initialize() and the AnimationSystem object itself are left as they are.*)
(***************************************************************************)
\* handleResize(): updateCanvasSize() writes this.canvas.width
ResizeRaises == goneDestroyed

\* handleAnimationFrameChanged(): this.animationSystem.getCurrentFramePixels()
FrameChangedRaises == goneDestroyed

\* handleAnimationStopped(): progressToNextStage() executes the next stage;
\* executeWaitForClickStage() writes this.canvas.style, the other stages test
\* their effect before using it
StoppedRaises == goneDestroyed /\ goneNextStage = "wait_for_click"

\* initialize() resumed after its awaits: without this.animationSystem it
\* takes the static branch, getImagePixels() reads this.canvas.width
ResumeRaises == goneDestroyed

Raised(raises) == IF raises /\ goneErrors < MaxLate THEN goneErrors + 1 ELSE goneErrors

\* initialize() up to its await
GoneInitialize ==
    /\ ~goneDestroyed
    /\ "init" \notin gonePending
    /\ gonePending' = gonePending \cup {"init"}
    /\ UNCHANGED <<notGoneVars, goneDestroyed, goneDriver, goneNextStage, goneErrors,
                   goneLateSignals>>

\* initialize() resumes with the image loaded
GoneInitializeResumes ==
    /\ "init" \in gonePending
    /\ gonePending' = gonePending \ {"init"}
    /\ goneErrors' = Raised(ResumeRaises)
    /\ UNCHANGED <<notGoneVars, goneDestroyed, goneDriver, goneNextStage, goneLateSignals>>

\* window 'resize': the debounced function (re)arms its timer
WindowResized ==
    /\ gonePending' = gonePending \cup {"resize"}
    /\ "resize" \notin gonePending
    /\ UNCHANGED <<notGoneVars, goneDestroyed, goneDriver, goneNextStage, goneErrors,
                   goneLateSignals>>

\* The debounce timer fires: handleResize()
ResizeFires ==
    /\ "resize" \in gonePending
    /\ gonePending' = gonePending \ {"resize"}
    /\ goneErrors' = Raised(ResizeRaises)
    /\ UNCHANGED <<notGoneVars, goneDestroyed, goneDriver, goneNextStage, goneLateSignals>>

\* startAnimation(): this.animationSystem.start(), when there is one
GoneStart ==
    /\ ~goneDestroyed
    /\ goneDriver = "idle"
    /\ goneDriver' = "playing"
    /\ UNCHANGED <<notGoneVars, goneDestroyed, goneNextStage, gonePending, goneErrors,
                   goneLateSignals>>

\* An animate() callback of the driver with a frame due and a next frame:
\* it dispatches 'animationFrameChanged', handled by the instance
GoneAnimate ==
    /\ goneDriver = "playing"
    /\ goneDestroyed => goneLateSignals < MaxLate
    /\ goneLateSignals' = IF goneDestroyed THEN goneLateSignals + 1 ELSE goneLateSignals
    /\ goneErrors' = Raised(FrameChangedRaises)
    /\ UNCHANGED <<notGoneVars, goneDestroyed, goneDriver, goneNextStage, gonePending>>

\* An animate() callback at the wrap of a non-looping sequence: stop() and
\* its 'animationStopped', handled by the instance
GoneSequenceEnds ==
    /\ goneDriver = "playing"
    /\ goneDriver' = "idle"
    /\ goneErrors' = Raised(StoppedRaises)
    /\ UNCHANGED <<notGoneVars, goneDestroyed, goneNextStage, gonePending, goneLateSignals>>

\* destroy()
GoneDestroy ==
    /\ ~goneDestroyed
    /\ goneDestroyed' = TRUE
    /\ UNCHANGED <<notGoneVars, goneDriver, goneNextStage, gonePending, goneErrors,
                   goneLateSignals>>

\* After the constructor
InitGone ==
    /\ goneDestroyed = FALSE
    /\ goneDriver = "idle"
    /\ goneNextStage \in {"wait_for_click", "scatter"}
    /\ gonePending = {}
    /\ goneErrors = 0
    /\ goneLateSignals = 0

(***************************************************************************)
(* window.particleImageDisplay(tagId, configOverride) and the registry of  *)
(* instances.  An instance is named tag * 10 + its rank among the instances*)
(* constructed for the tag; the containers exist and carry                 *)
(* data-params-src.                                                        *)
(***************************************************************************)
TagIds == {1, 2}
CallIds == 1..MaxDisplayCalls

\* The n-th instance constructed for tag
InstanceOf(tag, n) == tag * 10 + n

\* getInstance(tagId)
getInstance(tag) == instances[tag]

\* new ReliqParticleImage(container, config); registerInstance(tagId,
\* instance); then the call awaits instance.initialize()
Constructed(c, tag) ==
    /\ created' = [created EXCEPT ![tag] = @ + 1]
    /\ instances' = [instances EXCEPT ![tag] = InstanceOf(tag, created'[tag])]
    /\ displayCalls' = [displayCalls EXCEPT
                           ![c] = [tag |-> tag, phase |-> "initializing",
                                   instance |-> InstanceOf(tag, created'[tag])]]

\* particleImageDisplay(tag, configOverride) up to its first await
DisplayCalled(c, tag, override) ==
    /\ displayCalls[c].phase = "idle"
    /\ IF getInstance(tag) # 0
       THEN /\ displayCalls' = [displayCalls EXCEPT
                                   ![c] = [tag |-> tag, phase |-> "resolved",
                                           instance |-> getInstance(tag)]]
            /\ UNCHANGED <<instances, created>>
       ELSE IF override
       THEN Constructed(c, tag)
       ELSE /\ displayCalls' = [displayCalls EXCEPT
                                   ![c] = [tag |-> tag, phase |-> "fetching",
                                           instance |-> 0]]
            /\ UNCHANGED <<instances, created>>
    /\ UNCHANGED notDisplayVars

\* The fetch of the parameters settles: config = await response.json(), or
\* the catch block's return null
FetchSettled(c, ok) ==
    /\ displayCalls[c].phase = "fetching"
    /\ IF ok
       THEN Constructed(c, displayCalls[c].tag)
       ELSE /\ displayCalls' = [displayCalls EXCEPT ![c].phase = "resolved"]
            /\ UNCHANGED <<instances, created>>
    /\ UNCHANGED notDisplayVars

\* await instance.initialize() resumes: return instance
DisplayResolved(c) ==
    /\ displayCalls[c].phase = "initializing"
    /\ displayCalls' = [displayCalls EXCEPT ![c].phase = "resolved"]
    /\ UNCHANGED <<notDisplayVars, instances, created>>

\* The page loaded, nothing displayed yet
InitDisplay ==
    /\ instances = [tag \in TagIds |-> 0]
    /\ created = [tag \in TagIds |-> 0]
    /\ displayCalls = [c \in CallIds |-> [tag |-> 0, phase |-> "idle", instance |-> 0]]

(***************************************************************************)
(* attach() and detach() of MouseHandler (both revisions), TouchHandler    *)
(* and InteractionManager, and InteractionManager.updateConfig.  The       *)
(* listeners of one handler are registered and removed together, so one    *)
(* count per handler stands for each of its event types.                   *)
(***************************************************************************)
HandlerKinds == {"mouse", "touch"}

\* removeEventListener finds the function that was registered: the first
\* MouseHandler registers this.handleX.bind(this) and removes this.handleX
Removes(k) == ~(k = "mouse" /\ mouseRevision = 1)

\* MouseHandler.attach / TouchHandler.attach on the handler the manager holds
HandlerAttach(w, k) ==
    IF w.isAttached[k] THEN w
    ELSE [w EXCEPT !.listeners[k] = @ + 1, !.isAttached[k] = TRUE]

\* MouseHandler.detach / TouchHandler.detach
HandlerDetach(w, k) ==
    IF ~w.isAttached[k] THEN w
    ELSE [w EXCEPT !.listeners[k] = IF Removes(k) THEN @ - 1 ELSE @,
                   !.isAttached[k] = FALSE]

\* if (this.mouseHandler) this.mouseHandler.attach(), and so for detach
IfHeldAttach(w, k) == IF w.held[k] THEN HandlerAttach(w, k) ELSE w
IfHeldDetach(w, k) == IF w.held[k] THEN HandlerDetach(w, k) ELSE w

\* InteractionManager.attach
ManagerAttach(w) ==
    IF w.managerAttached THEN w
    ELSE [IfHeldAttach(IfHeldAttach(w, "mouse"), "touch") EXCEPT !.managerAttached = TRUE]

\* InteractionManager.detach
ManagerDetach(w) ==
    IF ~w.managerAttached THEN w
    ELSE [IfHeldDetach(IfHeldDetach(w, "mouse"), "touch") EXCEPT !.managerAttached = FALSE]

\* this.mouseHandler = null; this.touchHandler = null; this.initialize()
ManagerInitialize(w, n) ==
    [w EXCEPT !.held = [k \in HandlerKinds |-> n[k]],
              !.isAttached = [k \in HandlerKinds |-> FALSE]]

\* InteractionManager.updateConfig(newConfig), n what the new configuration needs
ManagerUpdateConfig(w, n) ==
    IF \E k \in HandlerKinds : ~w.held[k] /\ n[k]
    THEN IF w.managerAttached
         THEN ManagerAttach(ManagerInitialize(ManagerDetach(w), n))
         ELSE ManagerInitialize(ManagerDetach(w), n)
    ELSE w

AttachCalled ==
    /\ attachCalls < MaxAttachCalls
    /\ attachCalls' = attachCalls + 1
    /\ wiring' = ManagerAttach(wiring)
    /\ UNCHANGED <<notAttachVars, mouseRevision, needs, staleEvents>>

DetachCalled ==
    /\ attachCalls < MaxAttachCalls
    /\ attachCalls' = attachCalls + 1
    /\ wiring' = ManagerDetach(wiring)
    /\ UNCHANGED <<notAttachVars, mouseRevision, needs, staleEvents>>

UpdateConfigCalled(n) ==
    /\ attachCalls < MaxAttachCalls
    /\ attachCalls' = attachCalls + 1
    /\ needs' = n
    /\ wiring' = ManagerUpdateConfig(wiring, n)
    /\ UNCHANGED <<notAttachVars, mouseRevision, staleEvents>>

\* The canvas dispatches an event of handler k's types to its listeners
CanvasEvent(k) ==
    /\ wiring.listeners[k] > 0
    /\ ~staleEvents
    /\ staleEvents' = (~wiring.held[k] \/ ~wiring.isAttached[k]
                          \/ wiring.listeners[k] > 1)
    /\ UNCHANGED <<notAttachVars, mouseRevision, needs, wiring, attachCalls>>

\* After new InteractionManager(canvas, config) and initialize()
InitAttach ==
    /\ mouseRevision \in {1, 2}
    /\ needs \in [HandlerKinds -> BOOLEAN]
    /\ wiring = [held |-> needs,
                 isAttached |-> [k \in HandlerKinds |-> FALSE],
                 managerAttached |-> FALSE,
                 listeners |-> [k \in HandlerKinds |-> 0]]
    /\ staleEvents = FALSE
    /\ attachCalls = 0

AttachAtRest ==
    /\ InitAttach
    /\ mouseRevision = 2
    /\ needs = [k \in HandlerKinds |-> TRUE]

(***************************************************************************)
(* Specifications: one per part, the other parts at rest                   *)
(***************************************************************************)
AnimAtRest == InitAnim /\ cfgFrames = <<0>> /\ ~loop /\ ~autoStart
FadeAtRest == InitFade /\ ~fadeEnabled /\ fadeDuration = 1
InputAtRest ==
    /\ InitInput
    /\ onClick = [enabled |-> FALSE, action |-> ""]
    /\ onTouch = onClick
    /\ onHover = onClick
    /\ ~secondaryInteractive

RepulseAtRest ==
    InitRepulse /\ forceCurve = "linear" /\ detectionRadius = 1 /\ maxDisplacement = 1

FlowAtRest ==
    /\ InitFlow
    /\ flowStages = DefaultStages
    /\ startIndex = 0
    /\ autoProgress
    /\ ~scatterEnabled

ConstructAtRest ==
    /\ InitConstruct
    /\ userCfg = [particles |-> TRUE, image |-> TRUE, density |-> "unset",
                  sizeValue |-> "unset", secondary |-> "off", frames |-> "off",
                  frameDuration |-> "unset"]
    /\ containerFound

DefaultsAtRest ==
    /\ InitDefaults
    /\ features = [n \in FlagNames |-> "undefined"]
    /\ userFlags = features

PlaceAtRest ==
    InitPlace /\ placementMode = "random" /\ surface = 1 /\ particleCount = 0

SeekAtRest == InitSeek /\ seeker.friction = 92

\* The parts added to the first five, at rest
\* The parts added last, at rest
ThirdAtRest == InitTick /\ FadeOutAtRest /\ ImageAtRest /\ SpeedAtRest /\ PageAtRest
FourthAtRest == WalkAtRest /\ InitGone /\ InitDisplay /\ AttachAtRest

MoreAtRest ==
    /\ RepulseAtRest /\ FlowAtRest /\ ConstructAtRest /\ DefaultsAtRest /\ PlaceAtRest
    /\ SeekAtRest
    /\ InitRun
    /\ ThirdAtRest
    /\ FourthAtRest

InitDriver ==
    InitAnim /\ FadeAtRest /\ InitScatter /\ InitLoop /\ InputAtRest /\ MoreAtRest

\* The frame cache while its images load
NextCache ==
    \/ Initialize
    \/ \E l \in loads : FrameLoaded(l)
    \/ \E l \in loads : FrameFailed(l)

SpecCache == InitDriver /\ [][NextCache]_vars

\* The driver under its whole interface: playback over a cache whose loads
\* have settled, with setFrame() and reset() called at any time
NextAnim ==
    \/ \E ok \in SUBSET (1..Len(cfgFrames)) : InitializeDone(ok)
    \/ Start
    \/ Stop
    \/ \E f \in FrameIds \cup {OtherId} : SetFrame(f)
    \/ \E d \in 1..FrameDuration : AnimTick(d)
    \/ Reset

SpecAnim == InitDriver /\ [][NextAnim]_vars

\* Plain playback: start() once initialize() has resolved, stop() and the
\* scheduled callbacks only
NextPlay ==
    \/ \E ok \in SUBSET (1..Len(cfgFrames)) : InitializeDone(ok)
    \/ (cacheInitialized /\ Start)
    \/ Stop
    \/ \E d \in 1..FrameDuration : AnimTick(d)

SpecPlay == InitDriver /\ [][NextPlay]_vars

\* Playback while the cache is rebuilt: initialize() called again at any
\* time (handleResize), its loads settling one by one between the callbacks
NextRebuild ==
    \/ Initialize
    \/ HandleResize
    \/ \E l \in loads : FrameLoaded(l)
    \/ \E l \in loads : FrameFailed(l)
    \/ (cacheInitialized /\ Start)
    \/ \E d \in 1..FrameDuration : AnimTick(d)

SpecRebuild == InitDriver /\ [][NextRebuild]_vars

\* The fade effect under the tick loop
NextFade ==
    \/ StartFadeOut
    \/ \E d \in 1..2 : UpdateFade(d)
    \/ FadeReset

InitEffect ==
    AnimAtRest /\ InitFade /\ InitScatter /\ InitLoop /\ InputAtRest /\ MoreAtRest

SpecFade == InitEffect /\ [][NextFade]_vars

\* The scatter effect and the particles
NextScatter ==
    \/ \E cos \in [Particles -> Cosines] :
           (\A p \in Particles : cos[p] \in FreshCosines(p)) /\ ScatterParticles(cos)
    \/ \E p \in Particles : ReturnParticle(p)
    \/ \E p \in Particles : ParticleSettles(p)
    \/ \E speed \in {0, 5} : CreateImageParticles(speed)

InitParticles ==
    AnimAtRest /\ FadeAtRest /\ InitScatter /\ InitLoop /\ InputAtRest /\ MoreAtRest

SpecScatter == InitParticles /\ [][NextScatter]_vars

\* The life cycle of the particle system
NextLoop ==
    \/ LoopInitialize
    \/ InitializeResumes
    \/ InitializeFails
    \/ LoopTick
    \/ Destroy

InitSystem ==
    AnimAtRest /\ FadeAtRest /\ InitScatter /\ InitLoop /\ InputAtRest /\ MoreAtRest

SpecLoop == InitSystem /\ [][NextLoop]_vars

\* Pointer input and the action resolved from it
NextInput ==
    \/ \E pt \in Points : handleMouseMove(pt)
    \/ handleMouseLeave
    \/ handleMouseDown
    \/ handleMouseUp
    \/ \E pt \in Points : handleTouchAt(pt)
    \/ handleTouchEnd
    \/ applyPrimaryInteraction

InitPointer ==
    AnimAtRest /\ FadeAtRest /\ InitScatter /\ InitLoop /\ InitInput /\ MoreAtRest

SpecInput == InitPointer /\ [][NextInput]_vars

\* Repulsion of one particle under a moving pointer, all handlers enabled
NextRepulse ==
    \/ \E pt \in Points : handleMouseMove(pt)
    \/ handleMouseLeave
    \/ \E pt \in Points : handleTouchAt(pt)
    \/ handleTouchEnd
    \/ ApplyRepulsion
    \/ \E d \in 1..2 : RepulseClock(d)
    \/ \E nx \in Positions : ParticleMoved(nx)

AllHandlersEnabled ==
    /\ InitInput
    /\ onClick = [enabled |-> TRUE, action |-> ""]
    /\ onTouch = onClick
    /\ onHover = onClick
    /\ ~secondaryInteractive

InitRepulsion ==
    AnimAtRest /\ FadeAtRest /\ InitScatter /\ InitLoop /\ AllHandlersEnabled /\ InitRepulse
        /\ FlowAtRest /\ ConstructAtRest /\ DefaultsAtRest /\ PlaceAtRest
    /\ SeekAtRest
    /\ InitRun
    /\ ThirdAtRest
    /\ FourthAtRest

SpecRepulse == InitRepulsion /\ [][NextRepulse]_vars

\* The driver and the flow of stages.  Once the flow has replaced the
\* driver's animation settings the driver refuses start() and never finds a
\* frame due: it takes no further step
NextFlow ==
    \/ (handledStops = stoppedCount /\ ~animCfgLost
           /\ \E ok \in SUBSET (1..Len(cfgFrames)) : InitializeDone(ok))
    \/ (handledStops = stoppedCount /\ ~animCfgLost /\ cacheInitialized /\ Start)
    \/ (handledStops = stoppedCount /\ ~animCfgLost
           /\ \E d \in 1..FrameDuration : AnimTick(d))
    \/ InitializeFlow
    \/ HandleFlowClick
    \/ HandleAnimationStopped

InitFlowSystem ==
    /\ InitAnim /\ ~loop
    /\ FadeAtRest /\ InitScatter /\ InitLoop /\ InputAtRest /\ RepulseAtRest
    /\ ConstructAtRest /\ DefaultsAtRest /\ PlaceAtRest
    /\ SeekAtRest
    /\ InitRun
    /\ InitFlow
    /\ ThirdAtRest
    /\ FourthAtRest

SpecFlow == InitFlowSystem /\ [][NextFlow]_vars

\* Construction of the particle system from a user configuration
NextConstruct == Construct

InitConstruction ==
    /\ AnimAtRest /\ FadeAtRest /\ InitScatter /\ InitLoop /\ InputAtRest
    /\ RepulseAtRest /\ FlowAtRest /\ DefaultsAtRest /\ PlaceAtRest
    /\ SeekAtRest
    /\ InitRun
    /\ InitConstruct
    /\ ThirdAtRest
    /\ FourthAtRest

SpecConstruct == InitConstruction /\ [][NextConstruct]_vars

\* Defaults applied to a user configuration
NextDefaults == SetDefaults

InitMerge ==
    /\ AnimAtRest /\ FadeAtRest /\ InitScatter /\ InitLoop /\ InputAtRest
    /\ RepulseAtRest /\ FlowAtRest /\ ConstructAtRest /\ PlaceAtRest
    /\ SeekAtRest
    /\ InitRun
    /\ InitDefaults
    /\ ThirdAtRest
    /\ FourthAtRest

SpecDefaults == InitMerge /\ [][NextDefaults]_vars

\* Placement of the secondary particles
NextPlace ==
    \/ \E x \in SamplePositions("around_image", MaxSurface + 1) : Sample(x)
    \/ NothingRequested

InitPlacement ==
    /\ AnimAtRest /\ FadeAtRest /\ InitScatter /\ InitLoop /\ InputAtRest
    /\ RepulseAtRest /\ FlowAtRest /\ ConstructAtRest /\ DefaultsAtRest
    /\ SeekAtRest
    /\ InitRun
    /\ InitPlace
    /\ ThirdAtRest
    /\ FourthAtRest

SpecPlace == InitPlacement /\ [][NextPlace]_vars

\* A particle on its way to its destination
NextSeek == ParticleUpdate

InitSeeking ==
    /\ AnimAtRest /\ FadeAtRest /\ InitScatter /\ InitLoop /\ InputAtRest
    /\ RepulseAtRest /\ FlowAtRest /\ ConstructAtRest /\ DefaultsAtRest
    /\ PlaceAtRest
    /\ InitRun
    /\ InitSeek
    /\ ThirdAtRest
    /\ FourthAtRest

SpecSeek == InitSeeking /\ [][NextSeek]_vars

\* The running system after a scatter: the tick loop keeps updating the
\* particles (requestAnimationFrame fires as long as the page is shown)
NextRun ==
    \/ \E cos \in [Particles -> Cosines] : ExecuteScatter(cos)
    \/ UpdateSystems

InitRunning ==
    /\ AnimAtRest /\ FadeAtRest /\ InitScatter /\ InitLoop /\ InputAtRest
    /\ RepulseAtRest /\ FlowAtRest /\ ConstructAtRest /\ DefaultsAtRest
    /\ PlaceAtRest
    /\ SeekAtRest
    /\ InitRun
    /\ ThirdAtRest
    /\ FourthAtRest

SpecRun == InitRunning /\ [][NextRun]_vars /\ WF_vars(UpdateSystems)

\* The fade effect from its construction on, under the tick loop
NextFadeOut ==
    \/ BuildFadeEffect
    \/ ExecuteFadeOut
    \/ \E d \in 1..2 : UpdateBuiltFade(d)

InitFadeStage ==
    /\ AnimAtRest /\ FadeAtRest /\ InitScatter /\ InitLoop /\ InputAtRest
    /\ RepulseAtRest /\ FlowAtRest /\ ConstructAtRest /\ DefaultsAtRest
    /\ PlaceAtRest
    /\ SeekAtRest
    /\ InitRun
    /\ InitTick
    /\ InitFadeOut
    /\ ImageAtRest
    /\ SpeedAtRest
    /\ PageAtRest
    /\ FourthAtRest

SpecFadeOut == InitFadeStage /\ [][NextFadeOut]_vars

\* createImageParticles on every argument
NextImage ==
    \E atDestination \in BOOLEAN, seed \in {0, 1} :
        CreateParticlesFrom(atDestination, seed)

InitImaging ==
    /\ AnimAtRest /\ FadeAtRest /\ InitScatter /\ InitLoop /\ InputAtRest
    /\ RepulseAtRest /\ FlowAtRest /\ ConstructAtRest /\ DefaultsAtRest
    /\ PlaceAtRest
    /\ SeekAtRest
    /\ InitRun
    /\ InitTick
    /\ FadeOutAtRest
    /\ InitImage
    /\ SpeedAtRest
    /\ PageAtRest
    /\ FourthAtRest

SpecImage == InitImaging /\ [][NextImage]_vars

\* The driver with the frame-changed listener registered
NextNotify ==
    \/ Initialize
    \/ \E l \in loads : FrameLoaded(l)
    \/ \E l \in loads : FrameFailed(l)
    \/ cacheInitialized /\ Start
    \/ \E d \in 1..FrameDuration : AnimateAndNotify(d)

InitNotifying ==
    /\ InitAnim /\ FadeAtRest /\ InitScatter /\ InitLoop /\ InputAtRest
    /\ RepulseAtRest /\ FlowAtRest /\ ConstructAtRest /\ DefaultsAtRest
    /\ PlaceAtRest
    /\ SeekAtRest
    /\ InitRun
    /\ InitTick
    /\ FadeOutAtRest
    /\ InitFrameParticles
    /\ SpeedAtRest
    /\ PageAtRest
    /\ FourthAtRest

SpecNotify == InitNotifying /\ [][NextNotify]_vars

\* The driver and setAnimationSpeed(); start() returns at once when the
\* driver's animation section has lost its enabled flag
NextSpeed ==
    \/ \E ok \in SUBSET (1..Len(cfgFrames)) : ~animCfgLost /\ InitializeDone(ok)
    \/ (~animCfgLost /\ cacheInitialized /\ Start)
    \/ \E d \in 1..FrameDuration : AnimTick(d)
    \/ \E m \in Multipliers : setAnimationSpeed(m)

InitSpeeding ==
    /\ InitAnim /\ FadeAtRest /\ InitScatter /\ InitLoop /\ InputAtRest
    /\ RepulseAtRest /\ FlowAtRest /\ ConstructAtRest /\ DefaultsAtRest
    /\ PlaceAtRest
    /\ SeekAtRest
    /\ InitRun
    /\ InitTick
    /\ FadeOutAtRest
    /\ ImageAtRest
    /\ InitSpeed
    /\ PageAtRest
    /\ FourthAtRest

SpecSpeed == InitSpeeding /\ [][NextSpeed]_vars

\* Two instances on one page
NextPage ==
    \E i \in Instances : PeerStart(i) \/ PeerAnimate(i) \/ PeerStop(i)

InitPaging ==
    /\ InitAnim /\ cfgFrames = <<0, 1>> /\ ~autoStart
    /\ FadeAtRest /\ InitScatter /\ InitLoop /\ InputAtRest /\ RepulseAtRest
    /\ ConstructAtRest /\ DefaultsAtRest /\ PlaceAtRest
    /\ SeekAtRest
    /\ InitRun
    /\ InitFlow
    /\ InitTick
    /\ FadeOutAtRest
    /\ ImageAtRest
    /\ SpeedAtRest
    /\ InitPage
    /\ FourthAtRest

SpecPage == InitPaging /\ [][NextPage]_vars

\* The flow's index under initializeFlow() and progressToNextStage()
NextWalk == WalkInitializeFlow \/ WalkProgress

InitWalking ==
    /\ AnimAtRest /\ FadeAtRest /\ InitScatter /\ InitLoop /\ InputAtRest
    /\ RepulseAtRest /\ FlowAtRest /\ ConstructAtRest /\ DefaultsAtRest
    /\ PlaceAtRest
    /\ SeekAtRest
    /\ InitRun
    /\ ThirdAtRest
    /\ InitWalk
    /\ InitGone
    /\ InitDisplay
    /\ AttachAtRest

SpecWalk == InitWalking /\ [][NextWalk]_vars

\* The driver of a looping animation under start(), stop() and its
\* callbacks, a start() allowed while a callback is still scheduled
NextChains ==
    \/ \E ok \in SUBSET (1..Len(cfgFrames)) : InitializeDone(ok)
    \/ cacheInitialized /\ StartUnder(MaxPending)
    \/ Stop
    \/ \E d \in 1..FrameDuration : AnimTick(d)

InitChains ==
    /\ InitAnim /\ loop /\ ~autoStart
    /\ FadeAtRest /\ InitScatter /\ InitLoop /\ InputAtRest /\ MoreAtRest

SpecChains == InitChains /\ [][NextChains]_vars

\* An instance, its callbacks and destroy()
NextGone ==
    \/ GoneInitialize
    \/ GoneInitializeResumes
    \/ WindowResized
    \/ ResizeFires
    \/ GoneStart
    \/ GoneAnimate
    \/ GoneSequenceEnds
    \/ GoneDestroy

InitGoing ==
    /\ AnimAtRest /\ FadeAtRest /\ InitScatter /\ InitLoop /\ InputAtRest
    /\ RepulseAtRest /\ FlowAtRest /\ ConstructAtRest /\ DefaultsAtRest
    /\ PlaceAtRest
    /\ SeekAtRest
    /\ InitRun
    /\ ThirdAtRest
    /\ WalkAtRest
    /\ InitGone
    /\ InitDisplay
    /\ AttachAtRest

SpecGone == InitGoing /\ [][NextGone]_vars

\* Calls of window.particleImageDisplay interleaved at their awaits
NextDisplay ==
    \E c \in CallIds :
        \/ \E tag \in TagIds, override \in BOOLEAN : DisplayCalled(c, tag, override)
        \/ \E ok \in BOOLEAN : FetchSettled(c, ok)
        \/ DisplayResolved(c)

InitDisplaying ==
    /\ AnimAtRest /\ FadeAtRest /\ InitScatter /\ InitLoop /\ InputAtRest
    /\ RepulseAtRest /\ FlowAtRest /\ ConstructAtRest /\ DefaultsAtRest
    /\ PlaceAtRest
    /\ SeekAtRest
    /\ InitRun
    /\ ThirdAtRest
    /\ WalkAtRest
    /\ InitGone
    /\ InitDisplay
    /\ AttachAtRest

SpecDisplay == InitDisplaying /\ [][NextDisplay]_vars

\* attach, detach and updateConfig calls on one manager, and the events
\* the canvas delivers between them
NextAttach ==
    \/ AttachCalled
    \/ DetachCalled
    \/ \E n \in [HandlerKinds -> BOOLEAN] : UpdateConfigCalled(n)
    \/ \E k \in HandlerKinds : CanvasEvent(k)

InitAttaching ==
    /\ AnimAtRest /\ FadeAtRest /\ InitScatter /\ InitLoop /\ InputAtRest
    /\ RepulseAtRest /\ FlowAtRest /\ ConstructAtRest /\ DefaultsAtRest
    /\ PlaceAtRest
    /\ SeekAtRest
    /\ InitRun
    /\ ThirdAtRest
    /\ WalkAtRest
    /\ InitGone
    /\ InitDisplay
    /\ InitAttach

SpecAttach == InitAttaching /\ [][NextAttach]_vars

(***************************************************************************)
(* ReliqParticleImage.isAnimationPlaying() and getStats(), with the        *)
(* animation feature enabled (this.animationSystem is an AnimationSystem)  *)
(***************************************************************************)
\* A JS boolean as the value a call returns
JSBool(b) == IF b THEN "true" ELSE "false"

\* typeof this.animationSystem.isPlaying: the constructor assigns the boolean
\* field isPlaying, an own property that hides the prototype method of the
\* same name
TypeOfIsPlaying == "boolean"

\* The call this.animationSystem.isPlaying()
CallIsPlaying ==
    IF TypeOfIsPlaying = "function" THEN JSBool(isPlaying) ELSE "TypeError"

\* The test both readers make before the call:
\* animationSystem && animationSystem.isPlaying && typeof ... === 'function'
IsPlayingCallable == isPlaying /\ TypeOfIsPlaying = "function"

\* ReliqParticleImage.isAnimationPlaying()
isAnimationPlaying == IF IsPlayingCallable THEN CallIsPlaying ELSE "false"

\* getStats().animationPlaying
getStatsAnimationPlaying == IF IsPlayingCallable THEN CallIsPlaying ELSE "false"

\* The same two readers in the earlier revision of ReliqParticleImage:
\* animationSystem.isPlaying === true, and animationSystem?.isPlaying() || false
isAnimationPlayingEarlier == JSBool(isPlaying = TRUE)
getStatsAnimationPlayingEarlier == CallIsPlaying

(***************************************************************************)
(* ReliqParticleImage.updateSystems() on the particle of applyRepulsion,   *)
(* the interactivity feature enabled and the pointer handlers at work.     *)
(***************************************************************************)
\* allowInteractivity, with features.interactivity set and
\* flow.disable_interactivity_during_animation true: !animationPlaying, which
\* updateSystems() computes as isAnimationPlaying() does
AllowInteractivity == isAnimationPlaying # "true"

\* interactionState of updateSystems(): getInteractionState() or null
TickInteractionState ==
    IF AllowInteractivity THEN getInteractionState
    ELSE [isMouseOver |-> FALSE, isMouseClicked |-> FALSE, isTouchActive |-> FALSE]

\* The pass resolves an input to an action whose arguments getRepulseArgs()
\* finds: the configuration gives arguments for each action it names
ResolvesToRepulse == getPrimaryAction(TickInteractionState) # NoAction

\* Particle.update() on the particle of applyRepulsion, restless movement off
UpdatedTarget ==
    LET v == TruncDiv((target.vx + TruncDiv(target.destX - target.x, Spring))
                          * NormalFriction, 100)
    IN  [target EXCEPT !.vx = v, !.x = target.x + v]

\* updateSystems(): primarySystem.updateParticles(interactionManager,
\* interactionState), which takes no parameters and calls particle.update()
InteractiveUpdate ==
    /\ interactTicks < MaxInteractTicks
    /\ interactTicks' = interactTicks + 1
    /\ target' = UpdatedTarget
    /\ UNCHANGED <<notTickVars, inputVars, repulseCfgVars, repulseElapsed, lastRepulse,
                   applies>>

\* The tick loop with the pointer moving over the canvas
NextTick ==
    \/ \E pt \in Points : handleMouseMove(pt)
    \/ handleMouseLeave
    \/ \E pt \in Points : handleTouchAt(pt)
    \/ handleTouchEnd
    \/ InteractiveUpdate

InitTicking ==
    /\ AnimAtRest /\ FadeAtRest /\ InitScatter /\ InitLoop /\ AllHandlersEnabled
    /\ InitRepulse
    /\ FlowAtRest /\ ConstructAtRest /\ DefaultsAtRest /\ PlaceAtRest
    /\ SeekAtRest
    /\ InitRun
    /\ InitTick
    /\ FadeOutAtRest
    /\ ImageAtRest
    /\ SpeedAtRest
    /\ PageAtRest
    /\ FourthAtRest

SpecTick == InitTicking /\ [][NextTick]_vars

(***************************************************************************)
(* Properties of the animation driver and the frame cache                  *)
(***************************************************************************)
AllFramesCached == \A i \in 1..Len(animationFrames) : animationFrames[i] \in cached

\* Positions of the sequence whose frame is not in the cache
FailedFrames == {i \in 1..Len(animationFrames) : animationFrames[i] \notin cached}

DistinctFrames ==
    \A i, j \in 1..Len(animationFrames) :
        animationFrames[i] = animationFrames[j] => i = j

\* C1: a non-looping run over n cached frames emits at most n-1 'frame
\* changed' signals, and exactly n-1 by the time it has stopped at the wrap
\* to index 0.  (SpecPlay)
C1_NonLoopingRunIsBounded ==
    (~loop /\ Len(animationFrames) > 0 /\ AllFramesCached) =>
        /\ changedCount <= Len(animationFrames) - 1
        /\ completedOnce => changedCount = Len(animationFrames) - 1

\* C2: start() is refused exactly when the driver is playing, or the sequence
\* has completed once and looping is disabled.  (SpecAnim)
C2_RefusedExactlyWhenPlayingOrCompleted ==
    StartRefused <=> (isPlaying \/ (completedOnce /\ ~loop))

\* C3: with one frame that failed to load, every 'frame changed' step of a
\* non-looping run still moves the driver one index forward, so the run
\* walks on to the wrap to index 0 instead of staying on the frame before
\* the failed one.  (SpecPlay)
C3_AdvancesPastFailedFrame ==
    [][(/\ ~loop
        /\ isPlaying
        /\ DistinctFrames
        /\ Cardinality(FailedFrames) = 1
        /\ changedCount' = changedCount + 1)
       => IndexOf(animationFrames, currentFrame')
              = IndexOf(animationFrames, currentFrame) + 1]_vars

\* C4: once every load of an initialize() has settled, the cache reports
\* fully loaded and progress 1, and a failed id reads as missing.  (SpecCache)
C4_SettledCacheIsFullyLoaded ==
    (batch > 0 /\ loads = {}) =>
        /\ isFullyLoaded
        /\ getProgress[1] = getProgress[2]
        /\ \A id \in FrameIds : id \notin cached => getFrame(id) = "missing"

\* C7: every stop() leaves the driver idle with the floating-offset snapshot
\* cleared and dispatches one 'animation stopped' signal; so does the natural
\* end of a run; a 'frame changed' signal is dispatched only by a playing
\* driver, and only a successful start() makes the driver play.  (SpecAnim)
C7_StopLeavesIdleAndSignalsOnce ==
    [][/\ Stop => /\ ~isPlaying'
                  /\ floatOffset' = "null"
                  /\ stoppedCount' = stoppedCount + 1
       /\ (isPlaying /\ ~isPlaying' /\ ~Reset) =>
              /\ floatOffset' = "null"
              /\ stoppedCount' = stoppedCount + 1
       /\ changedCount' = changedCount + 1 => isPlaying
       /\ (~isPlaying /\ isPlaying') =>
              /\ ~(hasPlayedOnce /\ ~loop)
              /\ currentFrame' = FrameAt(animationFrames', 0)
              /\ sinceFrame' = 0
              /\ changedCount' = 0]_vars

\* A forced stop in the middle of a run, its animate() callback still scheduled
C7_ForcedStopMidRun ==
    /\ ~isPlaying
    /\ hasPlayedOnce
    /\ ~completedOnce
    /\ stoppedCount >= 1
    /\ changedCount >= 1
    /\ floatOffset = "null"
    /\ rafAnim > 0

\* C8: setFrame(id) with an id absent from the cache changes nothing of the
\* driver (current frame, playing flag, frame timer) and only logs a warning;
\* with a cached id it sets the current frame to id and nothing else.
\* (SpecAnim)
C8_SetFrameOnlyToCachedFrames ==
    [][\A f \in FrameIds \cup {OtherId} :
          SetFrame(f) =>
              /\ currentFrame' = (IF f \in cached THEN f ELSE currentFrame)
              /\ warned' = (warned \/ f \notin cached)
              /\ UNCHANGED <<isPlaying, sinceFrame, hasPlayedOnce, floatOffset,
                             rafAnim, changedCount, stoppedCount, cacheVars>>]_vars

\* A playing driver moved off its first frame by setFrame() before any
\* advance, after a setFrame() of an uncached id was ignored with a warning
C8_JumpedAndIgnored ==
    /\ isPlaying
    /\ stoppedCount = 0
    /\ changedCount = 0
    /\ warned
    /\ currentFrame \in cached
    /\ currentFrame # FrameAt(animationFrames, 0)
    /\ sinceFrame < FrameDuration

(***************************************************************************)
(* Properties of the effects, the tick loop and the interaction resolver   *)
(***************************************************************************)
\* C5: after startFadeOut the opacity is 1 - min(elapsed / duration, 1), and
\* the completion signal has been given exactly once from the first update
\* with elapsed >= duration on, and not at all before.  (SpecFade)
C5_FadeCompletesExactlyOnce ==
    (fadeEnabled /\ fadeActive) =>
        /\ fadeOpacity = fadeDuration - Min(fadeElapsed, fadeDuration)
        /\ completeCount = (IF fadeElapsed >= fadeDuration THEN 1 ELSE 0)

\* C6: a particle last scattered seeks a destination other than the one it
\* had before, with friction 0.85 and its scattered mark set; shouldReturn is
\* true exactly for a scattered particle slower than 0.1; a particle last
\* returned seeks the destination it had before the scatter again and is no
\* longer marked scattered.  (SpecScatter)
C6_ScatterRoundTrip ==
    \A p \in Particles :
        /\ lastOp[p] = "scattered" =>
               /\ particles[p].destX # preDest[p]
               /\ particles[p].friction = ScatterFriction
               /\ particles[p].isScattered
        /\ shouldReturn(p) <=> (particles[p].isScattered /\ particles[p].speed < ReturnSpeed)
        /\ lastOp[p] = "returned" =>
               /\ particles[p].destX = preDest[p]
               /\ ~particles[p].isScattered

\* C19: snapshots are per particle: every particle marked scattered has a
\* snapshot, and it holds the destination the particle had when the scatter
\* that marked it was applied, so returnParticle always finds one.
\* (SpecScatter)
C19_SnapshotPerParticle ==
    \A p \in Particles :
        particles[p].isScattered =>
            /\ p \in DOMAIN originalPositions
            /\ originalPositions[p] = preDest[p]

\* C9: once destroy() has been called no update or render pass is performed,
\* and at most one tick callback, scheduled before, is still to fire or has
\* fired as a no-op.  (SpecLoop)
C9_AtMostOneIdleCallbackAfterDestroy ==
    isDestroyed =>
        /\ passes = passesAtDestroy
        /\ rafLoop + firedAfterDestroy <= 1

\* C10: the action resolved from the current input is the click action when
\* the mouse is clicked and on_click is enabled, else the touch action when a
\* touch is active and on_touch is enabled, else the hover action when the
\* mouse is over the canvas and on_hover is enabled, else null.  (SpecInput)
C10_PriorityClickTouchHover ==
    LET st == getInteractionState
        byClick == st.isMouseClicked /\ onClick.enabled
        byTouch == st.isTouchActive /\ onTouch.enabled
        byHover == st.isMouseOver /\ onHover.enabled
        a == getPrimaryAction(st)
    IN  /\ byClick => a = OrDefault(onClick.action, "big_repulse")
        /\ (~byClick /\ byTouch) => a = OrDefault(onTouch.action, "repulse")
        /\ (~byClick /\ ~byTouch /\ byHover) => a = OrDefault(onHover.action, "repulse")
        /\ (~byClick /\ ~byTouch /\ ~byHover) => a = NoAction

\* The mouse is clicked with on_click disabled while a touch is active with
\* on_touch enabled, and the touch action has been resolved
C10_DisabledClickYieldsToTouch ==
    /\ isMouseClicked
    /\ isMouseOver
    /\ ~onClick.enabled
    /\ onHover.enabled
    /\ isTouchActive
    /\ onTouch.enabled
    /\ onTouch.action = ""
    /\ onHover.action = "pulse"
    /\ primaryAction = "repulse"

PointerOutside == PointerX # NoCoord /\ PointerDistance > detectionRadius

C12_ReadersReportPlaying ==
    /\ isAnimationPlaying = JSBool(isPlaying)
    /\ getStatsAnimationPlaying = JSBool(isPlaying)

\* C13: with the default flow, once a non-looping sequence has completed
\* and its 'animation stopped' signal has been handled, the scatter effect
\* has been applied, if the scatter feature is enabled.  (SpecFlow)
C13_StopScattersByDefault ==
    (/\ flowStages = DefaultStages
     /\ startIndex = 0
     /\ autoProgress
     /\ scatterEnabled
     /\ completedOnce
     /\ handledStops = stoppedCount)
        => flowScatters >= 1

\* animate() dispatches 'animationFrameChanged' in this step
FrameChangedSignalled == changedCount' = changedCount + 1

\* detail.frame of that event: this.currentFrame, read after setFrame()
SignalledFrame == currentFrame'

\* detail.frameIndex of that event: nextIndex
SignalledFrameIndex == NextIndex(animationFrames, currentFrame)

\* C18: whenever 'animationFrameChanged' is dispatched, the signalled frame
\* is the driver's current frame and is frames[signalled frameIndex], and
\* the frame timer has just been reset, also with frames missing from the
\* cache and with the cache being rebuilt during playback.  (SpecRebuild)
C18_SignalAfterCommit ==
    [][FrameChangedSignalled =>
          /\ currentFrame' = SignalledFrame
          /\ SignalledFrame = FrameAt(animationFrames', SignalledFrameIndex)
          /\ sinceFrame' = 0]_vars

(***************************************************************************)
(* Properties of the configuration                                         *)
(***************************************************************************)
\* The violations of a configuration, each stated on its own
Violations(c) ==
    {m \in {"Missing particles configuration", "Missing image configuration",
            "Invalid particles density", "Invalid particles size value",
            "Invalid secondary particles placement mode",
            "Animation enabled but no frames specified",
            "Invalid animation frame duration"} :
        \/ m = "Missing particles configuration" /\ ~c.particles
        \/ m = "Missing image configuration" /\ ~c.image
        \/ m = "Invalid particles density" /\ c.density = "other"
        \/ m = "Invalid particles size value" /\ c.sizeValue = "other"
        \/ m = "Invalid secondary particles placement mode"
               /\ c.secondary \in {"unset", "spiral"}
        \/ m = "Animation enabled but no frames specified" /\ c.frames = "none"
        \/ m = "Invalid animation frame duration" /\ c.frameDuration = "other"}

\* C14: constructing with an invalid configuration throws one error whose
\* message lists every violation, each once, and applies nothing: no canvas
\* appended, no listener registered, no subsystem created.  (SpecConstruct)
C14_InvalidConfigThrowsOnceAppliesNothing ==
    (constructed # "no" /\ Violations(userCfg) # {}) =>
        /\ constructed = "invalid"
        /\ errorsThrown = 1
        /\ {thrownErrors[i] : i \in 1..Len(thrownErrors)} = Violations(userCfg)
        /\ Len(thrownErrors) = Cardinality(Violations(userCfg))
        /\ canvasAppended = 0
        /\ listeners = {}
        /\ subsystems = {}

\* The constructor has thrown for a configuration with three violations
\* although the container exists
C14_ThreeViolationsListed ==
    /\ constructed = "invalid"
    /\ containerFound
    /\ Len(thrownErrors) = 3
    /\ ~userCfg.image
    /\ userCfg.secondary = "spiral"
    /\ userCfg.frameDuration = "other"

\* C15: in the configuration setDefaults returns, every enabled flag the
\* user left unspecified is true when its feature toggle is on (animation,
\* floating, fade: toggle true; responsive: toggle not false).  (SpecDefaults)
C15_ToggleEnablesUnspecifiedFlag ==
    defaultsSet =>
        \A n \in FlagNames :
            (/\ userFlags[n] = "undefined"
             /\ IF n = "responsive" THEN features[n] # "false" ELSE features[n] = "true")
                => mergedFlags[n] = "true"

(***************************************************************************)
(* Properties of the placement and of the particle physics                 *)
(***************************************************************************)
\* Sets of candidate positions no two of which are closer than minSpacing
Spaced(ps) == \A a, b \in ps : a # b => Abs(a - b) >= MinSpacing

\* The most particles the surface has room for
Capacity ==
    LET fits == {ps \in SUBSET SamplePositions(placementMode, surface) : Spaced(ps)}
    IN  CHOOSE n \in 0..(MaxSurface + 3) :
            /\ \E ps \in fits : Cardinality(ps) = n
            /\ \A ps \in fits : Cardinality(ps) <= n

\* C16: placement terminates: every step either samples once more for the
\* same particle, fewer than 50 times in all, or ends that particle's
\* iteration, of which there are particleCount; the particles placed keep
\* the minimum spacing, so a surface with room for fewer than particleCount
\* yields fewer than particleCount, and the loop ends all the same.
\* (SpecPlace)
C16_PlacementIsBounded ==
    /\ [](/\ attempts < AttemptBudget
          /\ placeIndex <= particleCount
          /\ Spaced(placed)
          /\ Cardinality(placed) + skipped = placeIndex
          /\ placementDone => (placeIndex = particleCount /\ attempts = 0)
          /\ (placeIndex = particleCount /\ particleCount > 0) => placementDone
          /\ (placementDone /\ Capacity < particleCount)
                 => Cardinality(placed) < particleCount)
    /\ [][\/ placeIndex' = placeIndex /\ attempts' = attempts + 1
          \/ placeIndex' = placeIndex + 1 /\ attempts' = 0
          \/ particleCount = 0 /\ placementDone']_vars

\* Placement has ended one particle short on a surface too small for two,
\* the second given up after 50 samples
C16_GaveUpOnFullSurface ==
    /\ placementDone
    /\ particleCount = 2
    /\ Capacity = 1
    /\ Cardinality(placed) = 1
    /\ skipped = 1

\* One pixel: the tolerance of convergence and the bound on overshoot
SeekTolerance == PosScale

\* Ticks after which the distance may no longer grow
FirstFewTicks == 5

C20_ScatterIsFollowedByRecovery ==
    \A p \in Particles :
        swarm[p].isScattered ~>
            /\ ~swarm[p].isScattered
            /\ swarm[p].friction = NormalFriction
            /\ swarm[p].destX = swarmBefore[p]

(***************************************************************************)
(* Properties of the tick loop with interactivity                          *)
(***************************************************************************)
\* C21: on every pass of updateSystems() in which interactivity is allowed,
\* an enabled input resolves to a repulse action and the pointer is within
\* the detection radius of the particle (and not on it), applyRepulsion is
\* applied to the particle in that pass.  (SpecTick)
C21_RepulsionAppliedOnEveryTick ==
    [][(/\ interactTicks' = interactTicks + 1
        /\ AllowInteractivity
        /\ ResolvesToRepulse
        /\ PointerX # NoCoord
        /\ PointerDistance > 0
        /\ PointerDistance <= detectionRadius)
          => applies' = applies + 1]_vars

\* C23: with the fade feature on and particles.fade_out.enabled true, once
\* fade-out has been triggered the fade is active with the configured
\* duration, its opacity is 1 - min(elapsed / duration, 1), and from the
\* update that finds the duration elapsed on the completion has been handled
\* (particles cleared, 'particleAnimationComplete' dispatched).  (SpecFadeOut)
C23_TriggeredFadeRunsToCompletion ==
    (fadeFeature /\ particlesFadeOut.enabled /\ fadeTriggers > 0) =>
        /\ fadeActive
        /\ fadeDuration = particlesFadeOut.duration_ms
        /\ fadeOpacity = fadeDuration - Min(fadeElapsed, fadeDuration)
        /\ fadeElapsed >= fadeDuration => completeCount >= 1

(***************************************************************************)
(* Properties of the particles made from an image                          *)
(***************************************************************************)
\* step = max(1, round(width / responsiveDensity))
ClaimedStep ==
    IF 2 * pixelData.width >= 3 * responsiveDensity
    THEN (2 * pixelData.width + responsiveDensity) \div (2 * responsiveDensity)
    ELSE 1

\* The sampled coordinates whose alpha byte is above 128
OpaqueSamples ==
    {c \in (0..(pixelData.width - 1)) \X (0..(pixelData.height - 1)) :
        /\ c[1] % ClaimedStep = 0
        /\ c[2] % ClaimedStep = 0
        /\ c[1] + c[2] * pixelData.width < Len(pixelData.data)
        /\ pixelData.data[c[1] + c[2] * pixelData.width + 1] > 128}

\* C24: after createImageParticles on a buffer the collection holds exactly
\* one particle per sampled coordinate with alpha > 128 and nothing else,
\* each with that coordinate as its destination, and placed on it when
\* 'start at destination' was requested.  (SpecImage)
C24_OneParticlePerOpaqueSample ==
    imgOutcome = "created" =>
        /\ Len(imgParticles) = Cardinality(OpaqueSamples)
        /\ {<<imgParticles[k].destX, imgParticles[k].destY>> : k \in DOMAIN imgParticles}
               = OpaqueSamples
        /\ lastAtDestination =>
               \A k \in DOMAIN imgParticles :
                   /\ imgParticles[k].x = imgParticles[k].destX
                   /\ imgParticles[k].y = imgParticles[k].destY

\* A buffer sampled with a step of 2 that gave fewer particles than samples,
\* replacing the particle of an earlier image
C24_SteppedBufferReplacedEarlier ==
    /\ imgOutcome = "created"
    /\ ClaimedStep = 2
    /\ imgBefore = EarlierParticles
    /\ Len(imgParticles) = 1
    /\ Cardinality({c \in (0..(pixelData.width - 1)) \X (0..(pixelData.height - 1)) :
                       c[1] % 2 = 0 /\ c[2] % 2 = 0}) = 2
    /\ lastAtDestination

C25_InvalidDataLeavesParticles ==
    imgOutcome = "rejected" => imgParticles = imgBefore /\ imgBefore \in {<<>>, EarlierParticles}

(***************************************************************************)
(* Properties of random placement past its attempt budget                  *)
(***************************************************************************)
\* C26: random placement samples a candidate at most 50 times for one
\* particle, and the iteration that used up the 50 still places its last
\* candidate: no iteration ends without a push, so once the loop has ended
\* there is a push for every one of the target count.  (SpecPlace)
C26_BudgetEndsInBestEffort ==
    placementMode = "random" =>
        /\ attempts < AttemptBudget
        /\ skipped = 0
        /\ placementDone => placeIndex - skipped = particleCount

(***************************************************************************)
(* Properties of an unrecognized placement mode                            *)
(***************************************************************************)
\* C27: a configuration with secondary particles enabled and an unknown
\* placement_mode, valid in everything else and given a container, is
\* constructed, with its secondary system, as the same configuration in
\* grid mode is.  (SpecConstruct)
C27_UnknownModeFallsBackToGrid ==
    (/\ constructed # "no"
     /\ userCfg.secondary = "spiral"
     /\ containerFound
     /\ validateConfig([userCfg EXCEPT !.secondary = "grid"]) = <<>>)
        => /\ constructed = "ok"
           /\ errorsThrown = 0
           /\ subsystems = SubsystemsOf([userCfg EXCEPT !.secondary = "grid"])

(***************************************************************************)
(* Properties of the flow's animation stage                                *)
(***************************************************************************)
\* The step executes the stage the flow then stands on: the flow has just
\* been initialized or has moved to another stage
StageExecuted == stageIndex' # stageIndex \/ (flowStarted' /\ ~flowStarted)

\* C30: a step that executes an enabled 'animation' stage with auto_start,
\* the frames loaded and the driver idle and not yet played, leaves the
\* driver playing.  (SpecFlow)
C30_AnimationStageStartsDriver ==
    [][(/\ StageExecuted
        /\ isCurrentStage("animation", stageIndex')
        /\ flowStages[stageIndex' + 1].auto_start
        /\ cacheInitialized /\ animationFrames # <<>> /\ cached # {}
        /\ ~isPlaying /\ ~hasPlayedOnce /\ rafAnim < MaxChains)
          => isPlaying']_vars

\* The same for an animation stage with play_once: false
C30_LoopingStageStartsDriver ==
    [][(/\ StageExecuted
        /\ isCurrentStage("animation", stageIndex')
        /\ ~flowStages[stageIndex' + 1].play_once
        /\ cacheInitialized /\ animationFrames # <<>> /\ cached # {}
        /\ ~isPlaying /\ ~hasPlayedOnce /\ rafAnim < MaxChains)
          => isPlaying']_vars

(***************************************************************************)
(* Properties of the animation speed                                       *)
(***************************************************************************)
\* C29: setAnimationSpeed(m) with a valid m sets the driver's frame duration
\* to max(10, baseDuration / m) and leaves its enabled flag, loop setting,
\* frame list, current frame and playing state as they were, so a start()
\* that was acceptable stays acceptable.  (SpecSpeed)
C29_SpeedChangesDurationOnly ==
    [][speedCalls' = speedCalls + 1 =>
          /\ \E m \in Multipliers :
                 drvDuration' = SpedUpDuration(baseDuration, m)
          /\ animCfgLost' = animCfgLost
          /\ loop' = loop
          /\ animationFrames' = animationFrames
          /\ currentFrame' = currentFrame
          /\ isPlaying' = isPlaying]_vars

\* What setAnimationSpeed() does keep: the duration it computes, the frame
\* list, the current frame and the playing state
C29_SpeedKeepsPlayback ==
    [][speedCalls' = speedCalls + 1 =>
          /\ drvDuration' >= ShortestFrameDuration
          /\ animationFrames' = animationFrames
          /\ currentFrame' = currentFrame
          /\ isPlaying' = isPlaying]_vars

(***************************************************************************)
(* Properties of two instances on one page                                 *)
(***************************************************************************)
\* C28: an 'animation stopped' or 'frame changed' event dispatched by one
\* instance's driver leaves every other instance as it was: its flow stage,
\* its scatter and fade counts, its re-seeds and its driver.  (SpecPage)
C28_SignalsStayInTheirInstance ==
    [][signals' = signals + 1 =>
          \A j \in Instances : j # signalBy' => peers'[j] = peers[j]]_vars

(***************************************************************************)
(* Properties of the flow's stage index                                    *)
(***************************************************************************)
\* The indices from a + 1 to b, in order
Ascending(a, b) == [k \in 1..(b - a) |-> a + k]

\* C31: the stage index stays inside the stage list and never decreases;
\* a call on the last stage changes nothing; and a call that advances the
\* index dispatches one stage-changed event per advance, carrying the index
\* reached: one for each index passed, or one for the whole call.  (SpecWalk)
C31_IndexInRangeOneEventPerAdvance ==
    /\ [](/\ walkIndex >= 0
          /\ Len(walkStages) > 0 => walkIndex <= Len(walkStages) - 1
          /\ walkIndex >= walkBefore
          /\ (walkCall = "progress" /\ walkBefore = Len(walkStages) - 1)
                 => (walkIndex = walkBefore /\ walkEvents = <<>>))
    /\ [](walkCall # "none" =>
             \/ walkEvents = Ascending(walkBefore, walkIndex)
             \/ walkIndex > walkBefore /\ walkEvents = <<walkIndex>>)

\* What holds of the index alone
C31_IndexInRange ==
    /\ walkIndex >= 0
    /\ Len(walkStages) > 0 => walkIndex <= Len(walkStages) - 1
    /\ walkIndex >= walkBefore
    /\ Len(walkEvents) = walkIndex - walkBefore

(***************************************************************************)
(* Properties of the driver's scheduled callbacks                          *)
(***************************************************************************)
\* C32: at most one animate() callback of the driver is scheduled at any
\* time, whatever the order of start(), stop() and the callbacks. (SpecChains)
C32_AtMostOneTickChain == rafAnim <= 1

\* Without a stop() between two starts a second chain never appears
C32_OneChainWithoutStop == stoppedCount = 0 => rafAnim <= 1

(***************************************************************************)
(* Properties of the cache's counters across initializations               *)
(***************************************************************************)
\* C33: the cache's counters stay consistent, 0 <= loadedCount <= totalCount
\* and 0 <= getProgress() <= 1, and initialize() leaves no frame
\* retrievable, also when it is called again while loads of the previous
\* call are in flight.  (SpecRebuild)
C33_CountersStayConsistent ==
    /\ [](/\ 0 <= loadedCount
          /\ loadedCount <= totalCount
          /\ 0 <= getProgress[1]
          /\ getProgress[1] <= getProgress[2])
    /\ [][batch' = batch + 1 =>
             /\ loadedCount' = 0
             /\ \A id \in FrameIds : getFrame(id)' = "missing"]_vars

\* With a single initialize() the counters are consistent
C33_ConsistentUntilRebuilt ==
    batch <= 1 => (0 <= loadedCount /\ loadedCount <= totalCount)

(***************************************************************************)
(* Properties of repeated initialization                                   *)
(***************************************************************************)
\* C34: initialization takes effect at most once per instance: at most one
\* tick loop is running and the ready event is dispatched at most once,
\* however initialize() calls interleave; and a call after destroy() does
\* nothing.  (SpecLoop)
C34_InitializationTakesEffectOnce ==
    /\ [](rafLoop <= 1 /\ readyCount <= 1)
    /\ [][(isDestroyed /\ initCalls' = initCalls + 1)
             => UNCHANGED <<isInitialized, initAwaiting, rafLoop, passes, readyCount>>]_vars

\* A single call takes effect once
C34_OnceForOneCall ==
    initCalls <= 1 => (rafLoop <= 1 /\ readyCount <= 1)

(***************************************************************************)
(* Properties of an instance after destroy()                               *)
(***************************************************************************)
\* C35: after destroy() no callback of the instance that fires later raises
\* an error on the cleared canvas and subsystems, and its driver dispatches
\* no further frame-changed event.  (SpecGone)
C35_NothingFiresAfterDestroy ==
    goneDestroyed => (goneErrors = 0 /\ goneLateSignals = 0)

\* Before destroy() the callbacks raise nothing
C35_QuietBeforeDestroy ==
    ~goneDestroyed => (goneErrors = 0 /\ goneLateSignals = 0)

(***************************************************************************)
(* Properties of window.particleImageDisplay                               *)
(***************************************************************************)
\* C36: at most one instance is constructed per tagId, whatever the
\* interleaving of the calls, and all calls for a tagId that resolve to an
\* instance resolve to the same one.  (SpecDisplay)
C36_OneInstancePerTag ==
    /\ \A tag \in TagIds : created[tag] <= 1
    /\ \A c, d \in CallIds :
           (/\ displayCalls[c].phase = "resolved" /\ displayCalls[d].phase = "resolved"
            /\ displayCalls[c].tag = displayCalls[d].tag
            /\ displayCalls[c].instance # 0 /\ displayCalls[d].instance # 0)
               => displayCalls[c].instance = displayCalls[d].instance

(***************************************************************************)
(* Properties of the pointer state and the origin of the force             *)
(***************************************************************************)
\* The input whose branch of getPrimaryAction(state) returns the action
SelectingInput(state) ==
    IF state.isMouseClicked /\ onClick.enabled THEN "mouse"
    ELSE IF state.isTouchActive /\ onTouch.enabled THEN "touch"
    ELSE IF state.isMouseOver /\ onHover.enabled THEN "mouse"
    ELSE "none"

\* C37: the force applied for the resolved action originates at the
\* position of the input that selected the action: the mouse position for a
\* click or a hover, the touch position for a touch, for every combination
\* of mouse and touch state.  (SpecInput)
C37_ForceOriginatesAtSelectingInput ==
    /\ SelectingInput(getInteractionState) = "mouse" => PointerX = stateMouseX
    /\ SelectingInput(getInteractionState) = "touch" => PointerX = stateTouchX

\* With no touch in progress the force originates at the selecting input
C37_OriginWithoutTouch ==
    ~isTouchActive =>
        /\ SelectingInput(getInteractionState) = "mouse" => PointerX = stateMouseX
        /\ SelectingInput(getInteractionState) = "touch" => PointerX = stateTouchX

\* C38: after any sequence of mousemove, mousedown, mouseup and mouseleave
\* events isMouseClicked() implies isMouseOver().  (SpecInput)
C38_ClickedImpliesOver == isMouseClicked => isMouseOver

\* mousedown never sets the click flag while the position is unknown
C38_NoClickWithoutPosition ==
    [][(~isMouseOver /\ ~isMouseClicked) => ~isMouseClicked']_vars

(***************************************************************************)
(* Properties of attach() and detach()                                     *)
(***************************************************************************)
\* Each event type of a held handler has one listener when the handler is
\* attached and none when it is not, and no handler that is not held has
\* any; the manager's flag is the flag of every handler it holds
Wired ==
    /\ \A k \in HandlerKinds :
           wiring.listeners[k] = IF wiring.held[k] /\ wiring.isAttached[k] THEN 1 ELSE 0
    /\ \A k \in HandlerKinds :
           wiring.held[k] => wiring.isAttached[k] = wiring.managerAttached

\* C39: after any sequence of attach, detach and updateConfig calls each
\* event type has exactly one registered listener if the handler is
\* attached and none if it is detached, no event changes the state of a
\* detached handler, and the manager's attached flag equals that of every
\* handler it holds.  (SpecAttach)
C39_AttachAndDetachAreInverse == Wired /\ ~staleEvents

\* With the MouseHandler that registers the functions it bound at
\* construction the listeners follow the flags
C39_InverseWithBoundFunctions == mouseRevision = 2 => (Wired /\ ~staleEvents)

====
